---- MODULE Spec2Model ----
(***************************************************************************)
(* A model of the LinkedIn Voyager client: the request executor            *)
(* (internal/api/client.go), the credential helpers (internal/auth/auth.go)*)
(* and the API operations built on them (internal/api/linkedin.go,         *)
(* internal/api/messaging.go).                                             *)
(*                                                                         *)
(* Strings are sequences of one-character strings (or of longer tokens     *)
(* where the code never looks inside them), so that trimming, quoting and  *)
(* escaping are computed character by character.                           *)
(***************************************************************************)
EXTENDS Integers, Sequences, FiniteSets, TLC

VARIABLES
    client,     \* run -> the Client object the run calls (fixed after NewClient)
    call,       \* the operation being executed and its arguments, or NoCall
    pc,         \* run -> "idle" | "inflight" (waiting in c.HTTP.Do) | "done"
    req,        \* run -> the *http.Request handed to the transport, or NoReq
    sent,       \* run -> number of requests handed to the transport by this call
    out,        \* run -> the caller's output target (Unset until decoded into)
    err,        \* run -> the error the call returned (NoErr for nil)
    debugOut,   \* run -> the lines written to the debug writer by this call
    resp,       \* run -> what the transport returned to this call, or None
    result,     \* run -> the value the API operation returned besides its error
    arg,        \* input of the pure function under check, or None
    ret         \* its result, or None

vars == <<client, call, pc, req, sent, out, err, debugOut, resp, result, arg, ret>>

None == [kind |-> "none"]

(***************************************************************************)
(* Bounds of the model.                                                    *)
(***************************************************************************)
MaxLen == 4         \* longest string drawn as input of a string function

(***************************************************************************)
(* String helpers (package strings).                                       *)
(***************************************************************************)
QUOTE == "\""
BACKSLASH == "\\"
NEWLINE == "\n"

RECURSIVE StrsUpTo(_, _)
StrsUpTo(alphabet, n) ==
    IF n = 0 THEN {<<>>}
    ELSE LET shorter == StrsUpTo(alphabet, n - 1)
         IN  shorter \cup { Append(s, ch) : s \in shorter, ch \in alphabet }

Range(s) == {s[i] : i \in DOMAIN s}

RECURSIVE Flatten(_)
Flatten(ss) == IF ss = <<>> THEN <<>> ELSE Head(ss) \o Flatten(Tail(ss))

HasPrefix(s, ch) == Len(s) > 0 /\ s[1] = ch
HasSuffix(s, ch) == Len(s) > 0 /\ s[Len(s)] = ch

RECURSIVE TrimLeft(_, _)
TrimLeft(s, ch) == IF HasPrefix(s, ch) THEN TrimLeft(Tail(s), ch) ELSE s

RECURSIVE TrimRight(_, _)
TrimRight(s, ch) ==
    IF HasSuffix(s, ch) THEN TrimRight(SubSeq(s, 1, Len(s) - 1), ch) ELSE s

\* strings.Trim(s, cutset) for a one-character cutset
Trim(s, ch) == TrimRight(TrimLeft(s, ch), ch)

\* strings.TrimSuffix / strings.TrimPrefix: at most one occurrence is removed
TrimSuffix(s, ch) == IF HasSuffix(s, ch) THEN SubSeq(s, 1, Len(s) - 1) ELSE s
TrimPrefix(s, ch) == IF HasPrefix(s, ch) THEN Tail(s) ELSE s

IsSpace(ch) == ch \in {" ", NEWLINE, "\t"}

RECURSIVE TrimSpace(_)
TrimSpace(s) ==
    IF Len(s) > 0 /\ IsSpace(s[1]) THEN TrimSpace(Tail(s))
    ELSE IF Len(s) > 0 /\ IsSpace(s[Len(s)]) THEN TrimSpace(SubSeq(s, 1, Len(s) - 1))
    ELSE s

\* fmt.Sprintf("%q", s): strconv.Quote wraps s in double quotes and escapes
\* the double quote, the backslash and control characters in Go syntax.
QuoteEscape(ch) ==
    IF ch = QUOTE THEN <<BACKSLASH, QUOTE>>
    ELSE IF ch = BACKSLASH THEN <<BACKSLASH, BACKSLASH>>
    ELSE IF ch = NEWLINE THEN <<BACKSLASH, "n">>
    ELSE <<ch>>

SprintfQ(s) == <<QUOTE>> \o Flatten([i \in 1..Len(s) |-> QuoteEscape(s[i])]) \o <<QUOTE>>

(***************************************************************************)
(* auth.Cookies                                                            *)
(***************************************************************************)
CSRFToken(c) == Trim(c.JSessionID, QUOTE)

JSessionIDCookieValue(c) ==
    IF c.JSessionID = <<>> THEN <<>>
    ELSE IF HasPrefix(c.JSessionID, QUOTE) /\ HasSuffix(c.JSessionID, QUOTE)
         THEN c.JSessionID
    ELSE SprintfQ(c.JSessionID)

CookieHeader(c) ==
    LET b1 == IF c.LiAt # <<>> THEN <<"li_at=">> \o c.LiAt ELSE <<>>
        v  == JSessionIDCookieValue(c)
    IN  IF v # <<>>
        THEN (IF Len(b1) > 0 THEN b1 \o <<"; ">> ELSE b1) \o <<"JSESSIONID=">> \o v
        ELSE b1

(***************************************************************************)
(* auth.RandomTrackingID: 16 bytes of crypto/rand, each byte b written as  *)
(* the rune U+00b, the runes converted to a Go string (UTF-8).             *)
(* A read of the random source is [fail |-> TRUE] or                       *)
(* [fail |-> FALSE, bytes |-> b].                                          *)
(***************************************************************************)
TokenLen == 16

\* string(rune): the UTF-8 encoding of one code point below U+0800
UTF8Encode(cp) ==
    IF cp < 128 THEN <<cp>> ELSE <<192 + (cp \div 64), 128 + (cp % 64)>>

\* string([]rune)
RunesToString(runes) == Flatten([i \in 1..Len(runes) |-> UTF8Encode(runes[i])])

\* the code points a Go string holds (range over the string); a byte that
\* starts no valid sequence decodes to U+FFFD (65533)
RECURSIVE CodePoints(_)
CodePoints(bs) ==
    IF bs = <<>> THEN <<>>
    ELSE IF bs[1] < 128 THEN <<bs[1]>> \o CodePoints(Tail(bs))
    ELSE IF bs[1] >= 194 /\ bs[1] < 224 /\ Len(bs) >= 2 /\ bs[2] >= 128 /\ bs[2] < 192
         THEN <<(bs[1] - 192) * 64 + (bs[2] - 128)>> \o CodePoints(Tail(Tail(bs)))
    ELSE <<65533>> \o CodePoints(Tail(bs))

RandomTrackingIDRawBytes(rnd) ==
    IF rnd.fail THEN [id |-> <<>>, failed |-> TRUE]
    ELSE [id |-> rnd.bytes, failed |-> FALSE]

RandomTrackingID(rnd) ==
    IF rnd.fail THEN [id |-> <<>>, failed |-> TRUE]
    ELSE [id |-> RunesToString([i \in 1..TokenLen |-> rnd.bytes[i]]), failed |-> FALSE]

(***************************************************************************)
(* encodeURNValue (messaging.go): a strings.Replacer over four characters. *)
(***************************************************************************)
URNReplacement(ch) ==
    IF ch = ":" THEN <<"%", "3", "A">>
    ELSE IF ch = "(" THEN <<"%", "2", "8">>
    ELSE IF ch = ")" THEN <<"%", "2", "9">>
    ELSE IF ch = "," THEN <<"%", "2", "C">>
    ELSE <<ch>>

encodeURNValueNoComma(urn) ==
    Flatten([i \in 1..Len(urn) |->
                IF urn[i] = "," THEN <<urn[i]>> ELSE URNReplacement(urn[i])])

encodeURNValue(urn) == Flatten([i \in 1..Len(urn) |-> URNReplacement(urn[i])])

(***************************************************************************)
(* Decoded JSON documents (map[string]any, []any, string), tagged by type. *)
(* Strings inside documents are atomic; "" and " " are the blank ones.     *)
(***************************************************************************)
JNull == [t |-> "null"]
JStr(s) == [t |-> "str", s |-> s]
JObj(f) == [t |-> "obj", o |-> f]
JArr(a) == [t |-> "arr", a |-> a]

IsBlank(s) == s \in {"", " "}

RECURSIVE getString(_, _)
getString(m, path) ==
    IF path = <<>> THEN (IF m.t = "str" THEN m.s ELSE "")
    ELSE IF m.t # "obj" THEN ""
    ELSE IF Head(path) \notin DOMAIN m.o THEN ""
    ELSE getString(m.o[Head(path)], Tail(path))

\* findFirstString ranges over a Go map in unspecified order: the set of
\* the strings it can return (depth-first, the key at this level first).
RECURSIVE findFirstStrings(_, _)
findFirstStrings(v, key) ==
    IF v.t = "obj" THEN
        IF key \in DOMAIN v.o /\ v.o[key].t = "str" /\ ~IsBlank(v.o[key].s)
        THEN {v.o[key].s}
        ELSE LET found == UNION { findFirstStrings(v.o[k], key) : k \in DOMAIN v.o }
             IN  IF found \subseteq {""} THEN {""} ELSE found \ {""}
    ELSE IF v.t = "arr" THEN
        LET hits == { i \in 1..Len(v.a) : findFirstStrings(v.a[i], key) # {""} }
        IN  IF hits = {} THEN {""}
            ELSE findFirstStrings(v.a[CHOOSE i \in hits : \A j \in hits : i <= j], key)
    ELSE {""}

(***************************************************************************)
(* Response parsing (messaging.go). JSON strings are values of their own;  *)
(* a number is held as the integer getInt64 makes of it.                   *)
(***************************************************************************)
JNum(n) == [t |-> "num", n |-> n]

ParticipantType == "com.linkedin.messenger.MessagingParticipant"
MessageType == "com.linkedin.messenger.Message"
ConversationType == "com.linkedin.messenger.Conversation"

\* raw["included"].([]any)
Included(raw) ==
    IF raw.t = "obj" /\ "included" \in DOMAIN raw.o /\ raw.o["included"].t = "arr"
    THEN raw.o["included"].a
    ELSE <<>>

\* m, ok := item.(map[string]any); t, _ := m["$type"].(string); t == typ
IsEntity(item, typ) == item.t = "obj" /\ getString(item, <<"$type">>) = typ

EntitiesOf(included, typ) == { i \in 1..Len(included) : IsEntity(included[i], typ) }

getInt64(m, key) ==
    IF key \in DOMAIN m.o /\ m.o[key].t = "num" THEN m.o[key].n ELSE 0

parseParticipant(m) ==
    [EntityURN  |-> getString(m, <<"entityUrn">>),
     FirstName  |-> getString(m, <<"participantType", "member", "firstName", "text">>),
     LastName   |-> getString(m, <<"participantType", "member", "lastName", "text">>),
     ProfileURN |-> getString(m, <<"hostIdentityUrn">>)]

\* strings.TrimSpace(p.FirstName + " " + p.LastName), names as one token each
FullNameFirstOnly(p) == TrimSpace(IF p.FirstName = "" THEN <<>> ELSE <<p.FirstName>>)

FullName(p) ==
    TrimSpace((IF p.FirstName = "" THEN <<>> ELSE <<p.FirstName>>) \o <<" ">>
                \o (IF p.LastName = "" THEN <<>> ELSE <<p.LastName>>))

parseMessage(m, participants) ==
    LET prefixed == getString(m, <<"*sender">>)
        senderURN == IF prefixed # "" THEN prefixed
                     ELSE IF "sender" \in DOMAIN m.o /\ m.o["sender"].t = "str"
                     THEN m.o["sender"].s
                     ELSE ""
    IN  [EntityURN   |-> getString(m, <<"entityUrn">>),
         DeliveredAt |-> getInt64(m, "deliveredAt"),
         BodyText    |-> getString(m, <<"body", "text">>),
         SenderURN   |-> senderURN,
         SenderName  |-> IF senderURN \in DOMAIN participants
                         THEN FullName(participants[senderURN]) ELSE <<>>]

\* the two indexes: a later entity with the same entityUrn replaces an
\* earlier one, an entity with an empty entityUrn is not indexed
LastOf(is) == CHOOSE i \in is : \A j \in is : j <= i

participantsByURN(included) ==
    LET is == { i \in EntitiesOf(included, ParticipantType) :
                  parseParticipant(included[i]).EntityURN # "" }
        urns == { parseParticipant(included[i]).EntityURN : i \in is }
    IN  [u \in urns |->
            parseParticipant(
                included[LastOf({ i \in is : parseParticipant(included[i]).EntityURN = u })])]

messagesByURN(included, participants) ==
    LET is == { i \in EntitiesOf(included, MessageType) :
                  getString(included[i], <<"entityUrn">>) # "" }
        urns == { getString(included[i], <<"entityUrn">>) : i \in is }
    IN  [u \in urns |->
            parseMessage(
                included[LastOf({ i \in is : getString(included[i], <<"entityUrn">>) = u })],
                participants)]

\* the participants the string references of refs name, in order
RECURSIVE ResolveParticipants(_, _)
ResolveParticipants(refs, participants) ==
    IF refs = <<>> THEN <<>>
    ELSE (IF Head(refs).t = "str" /\ Head(refs).s \in DOMAIN participants
          THEN <<participants[Head(refs).s]>> ELSE <<>>)
         \o ResolveParticipants(Tail(refs), participants)

ParticipantsUnder(m, key, participants) ==
    IF key \in DOMAIN m.o /\ m.o[key].t = "arr"
    THEN ResolveParticipants(m.o[key].a, participants)
    ELSE <<>>

\* nil, or the message the reference under key names
LastMessageUnder(m, key, messages) ==
    IF key \in DOMAIN m.o /\ m.o[key].t = "str" /\ m.o[key].s # ""
       /\ m.o[key].s \in DOMAIN messages
    THEN <<messages[m.o[key].s]>>
    ELSE <<>>

buildConversationPlainFirst(m, participants, messages) ==
    LET ps1 == ParticipantsUnder(m, "conversationParticipants", participants)
        ps2 == ParticipantsUnder(m, "*conversationParticipants", participants)
        lm1 == LastMessageUnder(m, "lastMessage", messages)
        lm2 == LastMessageUnder(m, "*lastMessage", messages)
    IN  [EntityURN    |-> getString(m, <<"entityUrn">>),
         Participants |-> IF Len(ps1) > 0 THEN ps1 ELSE ps2,
         LastMessage  |-> IF lm1 # <<>> THEN lm1 ELSE lm2]

\* messaging.go 248-278: one Conversation of phase 3; LastMessage is <<>>
\* for nil and <<msg>> for a pointer to msg
buildConversation(m, participants, messages) ==
    LET ps1 == ParticipantsUnder(m, "*conversationParticipants", participants)
        ps2 == ParticipantsUnder(m, "conversationParticipants", participants)
        lm1 == LastMessageUnder(m, "*lastMessage", messages)
        lm2 == LastMessageUnder(m, "lastMessage", messages)
    IN  [EntityURN    |-> getString(m, <<"entityUrn">>),
         Participants |-> IF Len(ps1) > 0 THEN ps1 ELSE ps2,
         LastMessage  |-> IF lm1 # <<>> THEN lm1 ELSE lm2]

\* the indexes of is up to n, ascending
RECURSIVE SelectIndexes(_, _)
SelectIndexes(n, is) ==
    IF n = 0 THEN <<>>
    ELSE SelectIndexes(n - 1, is) \o (IF n \in is THEN <<n>> ELSE <<>>)

resolveConversationsOnePass(included) ==
    LET order == SelectIndexes(Len(included), EntitiesOf(included, ConversationType))
    IN  [k \in 1..Len(order) |->
            LET seen == SubSeq(included, 1, order[k])
                participants == participantsByURN(seen)
            IN  buildConversation(included[order[k]], participants,
                                  messagesByURN(seen, participants))]

\* phases 1 to 3: the conversations in the order of the array
resolveConversations(included) ==
    LET participants == participantsByURN(included)
        messages == messagesByURN(included, participants)
        order == SelectIndexes(Len(included), EntitiesOf(included, ConversationType))
    IN  [k \in 1..Len(order) |-> buildConversation(included[order[k]], participants, messages)]

collectMessagesIndexed(included) ==
    LET messages == messagesByURN(included, participantsByURN(included))
        order == SelectIndexes(Len(included),
                               { i \in EntitiesOf(included, MessageType) :
                                   getString(included[i], <<"entityUrn">>) # "" })
    IN  [k \in 1..Len(order) |-> messages[getString(included[order[k]], <<"entityUrn">>)]]

\* ParseMessages before the sort: the messages in the order of the array
collectMessages(included) ==
    LET participants == participantsByURN(included)
        order == SelectIndexes(Len(included), EntitiesOf(included, MessageType))
    IN  [k \in 1..Len(order) |-> parseMessage(included[order[k]], participants)]

\* the timestamp the comparison function of ParseConversations reads
ConversationTime(c) == IF c.LastMessage # <<>> THEN c.LastMessage[1].DeliveredAt ELSE 0

\* sort.Slice: the slice holds the same elements, ordered by the key; the
\* order of elements with equal keys is not guaranteed. descending says
\* which way less compares.
SortSliceAscendingAlways(list, key, descending) ==
    { [i \in 1..Len(list) |-> list[f[i]]] :
        f \in { g \in Permutations(1..Len(list)) :
                  \A i, j \in 1..Len(list) :
                     i < j => key[g[i]] <= key[g[j]] } }

SortSlice(list, key, descending) ==
    { [i \in 1..Len(list) |-> list[f[i]]] :
        f \in { g \in Permutations(1..Len(list)) :
                  \A i, j \in 1..Len(list) :
                     i < j => IF descending THEN key[g[i]] >= key[g[j]]
                              ELSE key[g[i]] <= key[g[j]] } }

\* what ParseConversations can return for raw
ParseConversations(raw) ==
    LET convos == resolveConversations(Included(raw))
    IN  SortSlice(convos, [k \in 1..Len(convos) |-> ConversationTime(convos[k])], TRUE)

\* what ParseMessages can return for raw
ParseMessages(raw) ==
    LET msgs == collectMessages(Included(raw))
    IN  SortSlice(msgs, [k \in 1..Len(msgs) |-> msgs[k].DeliveredAt], FALSE)

(***************************************************************************)
(* Identity resolution (linkedin.go: GetMe, GetProfile). The strings of a  *)
(* document are searched and cut character by character.                   *)
(***************************************************************************)
\* strings.Contains(s, sub)
Contains(s, sub) ==
    \E i \in 1..(Len(s) - Len(sub) + 1) : SubSeq(s, i, i + Len(sub) - 1) = sub

\* strings.TrimSpace on a string of a document
RECURSIVE TrimSpaceString(_)
TrimSpaceString(s) ==
    IF Len(s) > 0 /\ IsSpace(SubSeq(s, 1, 1)) THEN TrimSpaceString(SubSeq(s, 2, Len(s)))
    ELSE IF Len(s) > 0 /\ IsSpace(SubSeq(s, Len(s), Len(s)))
    THEN TrimSpaceString(SubSeq(s, 1, Len(s) - 1))
    ELSE s

urnIDFirstColon(urn) ==
    LET u == TrimSpaceString(urn)
        colons == { i \in 1..Len(u) : SubSeq(u, i, i) = ":" }
        first == CHOOSE i \in colons : \A j \in colons : i <= j
    IN  IF colons # {} /\ first < Len(u) THEN SubSeq(u, first + 1, Len(u)) ELSE ""

\* the part after the last colon; "" when there is no colon or nothing after it
urnID(urn) ==
    LET u == TrimSpaceString(urn)
        colons == { i \in 1..Len(u) : SubSeq(u, i, i) = ":" }
        last == CHOOSE i \in colons : \A j \in colons : j <= i
    IN  IF u = "" THEN ""
        ELSE IF colons # {} /\ last < Len(u) THEN SubSeq(u, last + 1, Len(u))
        ELSE ""

\* the element a scan of included[] in array order returns: the first one
\* of hits, or the nil map
FirstOf(included, hits) ==
    IF hits = {} THEN JNull
    ELSE included[CHOOSE i \in hits : \A j \in hits : i <= j]

IsMiniProfile(item) ==
    /\ item.t = "obj"
    /\ \/ Contains(getString(item, <<"entityUrn">>), "miniProfile")
       \/ Contains(getString(item, <<"dashEntityUrn">>), "fsd_profile")
       \/ Contains(getString(item, <<"$type">>), "MiniProfile")
       \/ Contains(getString(item, <<"$type">>), "miniProfile")

\* v, ok := m[key].(map[string]any)
HasMap(m, key) == m.t = "obj" /\ key \in DOMAIN m.o /\ m.o[key].t = "obj"

findMiniProfileIncludedOnly(raw) ==
    LET included == Included(raw)
    IN  FirstOf(included, { i \in 1..Len(included) : IsMiniProfile(included[i]) })

findMiniProfile(raw) ==
    LET included == Included(raw)
        hits == { i \in 1..Len(included) : IsMiniProfile(included[i]) }
    IN  IF hits # {} THEN FirstOf(included, hits)
        ELSE IF HasMap(raw, "data") /\ HasMap(raw.o["data"], "miniProfile")
        THEN raw.o["data"].o["miniProfile"]
        ELSE IF HasMap(raw, "miniProfile") THEN raw.o["miniProfile"]
        ELSE JNull

\* GetMe after a successful Do: the Me value built from the miniProfile
MeOf(raw) ==
    LET mini == findMiniProfile(raw)
        entityUrn == getString(mini, <<"entityUrn">>)
        miniEntityURN ==
            IF entityUrn = "" THEN getString(mini, <<"dashEntityUrn">>) ELSE entityUrn
        memberID ==
            IF urnID(miniEntityURN) = "" THEN urnID(getString(mini, <<"objectUrn">>))
            ELSE urnID(miniEntityURN)
    IN  [PublicIdentifier     |-> getString(mini, <<"publicIdentifier">>),
         FirstName            |-> getString(mini, <<"firstName">>),
         LastName             |-> getString(mini, <<"lastName">>),
         Occupation           |-> getString(mini, <<"occupation">>),
         MiniProfileEntityURN |-> miniEntityURN,
         MemberID             |-> memberID,
         MemberURN            |-> IF memberID # "" THEN "urn:li:member:" \o memberID ELSE ""]

ZeroMe ==
    [PublicIdentifier |-> "", FirstName |-> "", LastName |-> "", Occupation |-> "",
     MiniProfileEntityURN |-> "", MemberID |-> "", MemberURN |-> ""]

IsDashProfile(item) ==
    /\ item.t = "obj"
    /\ Contains(getString(item, <<"$type">>), "Profile")
    /\ Contains(getString(item, <<"entityUrn">>), "fsd_profile")

findProfileFirstObject(raw) ==
    LET included == Included(raw)
    IN  FirstOf(included, { i \in 1..Len(included) : included[i].t = "obj" })

findProfileInIncluded(raw) ==
    LET included == Included(raw)
        typed == { i \in 1..Len(included) : IsDashProfile(included[i]) }
        named == { i \in 1..Len(included) :
                     included[i].t = "obj" /\ "firstName" \in DOMAIN included[i].o }
    IN  IF typed # {} THEN FirstOf(included, typed) ELSE FirstOf(included, named)

\* GetProfile after a successful Do: the Profile built from the entity
ProfileOf(raw) ==
    LET Build(prof, geo, entityURN, memberID) ==
            [PublicIdentifier     |-> getString(prof, <<"publicIdentifier">>),
             FirstName            |-> getString(prof, <<"firstName">>),
             LastName             |-> getString(prof, <<"lastName">>),
             Headline             |-> getString(prof, <<"headline">>),
             Summary              |-> getString(prof, <<"summary">>),
             LocationName         |-> IF geo = "" THEN getString(prof, <<"locationName">>)
                                      ELSE geo,
             MiniProfileEntityURN |-> entityURN,
             MemberID             |-> memberID,
             MemberURN            |-> IF memberID # "" THEN "urn:li:member:" \o memberID
                                      ELSE ""]
        WithID(prof, entityURN, id) ==
            Build(prof, getString(prof, <<"geoLocationName">>), entityURN,
                  IF id = "" THEN urnID(getString(prof, <<"objectUrn">>)) ELSE id)
        WithURN(prof, entityURN) == WithID(prof, entityURN, urnID(entityURN))
        From(prof, urn) ==
            WithURN(prof, IF urn = "" THEN getString(prof, <<"dashEntityUrn">>) ELSE urn)
        Of(prof) == From(prof, getString(prof, <<"entityUrn">>))
    IN  Of(findProfileInIncluded(raw))

ZeroProfile ==
    [PublicIdentifier |-> "", FirstName |-> "", LastName |-> "", Headline |-> "",
     Summary |-> "", LocationName |-> "", MiniProfileEntityURN |-> "", MemberID |-> "",
     MemberURN |-> ""]

(***************************************************************************)
(* Feed updates (linkedin.go: ListProfilePosts). A Go map is ranged over   *)
(* in unspecified order, so a search through the fields of a map is the    *)
(* set of the texts it can return.                                         *)
(***************************************************************************)
\* findTextField: the "text" of this map when it is a non-blank string,
\* else the first non-empty result among the fields or elements
findTextFields(v) == findFirstStrings(v, "text")

RECURSIVE findCommentaryTexts(_)
findCommentaryTexts(v) ==
    IF v.t = "obj" THEN
        IF "commentary" \in DOMAIN v.o /\ findTextFields(v.o["commentary"]) # {""}
        THEN findTextFields(v.o["commentary"])
        ELSE IF "shareCommentary" \in DOMAIN v.o
                /\ findTextFields(v.o["shareCommentary"]) # {""}
        THEN findTextFields(v.o["shareCommentary"])
        ELSE LET found == UNION { findCommentaryTexts(v.o[k]) : k \in DOMAIN v.o }
             IN  IF found \subseteq {""} THEN {""} ELSE found \ {""}
    ELSE IF v.t = "arr" THEN
        LET hits == { i \in 1..Len(v.a) : findCommentaryTexts(v.a[i]) # {""} }
        IN  IF hits = {} THEN {""}
            ELSE findCommentaryTexts(v.a[CHOOSE i \in hits : \A j \in hits : i <= j])
    ELSE {""}

\* the elements of included[] that the fallback takes for updates
IsUpdate(item) ==
    /\ item.t = "obj"
    /\ \/ Contains(getString(item, <<"$type">>), "Update")
       \/ Contains(getString(item, <<"entityUrn">>), "urn:li:fs_update")
       \/ Contains(getString(item, <<"entityUrn">>), "activity")

\* raw["elements"].([]any)
Elements(raw) ==
    IF raw.t = "obj" /\ "elements" \in DOMAIN raw.o /\ raw.o["elements"].t = "arr"
    THEN raw.o["elements"].a
    ELSE <<>>

IncludedUpdates(raw) ==
    LET included == Included(raw)
        order == SelectIndexes(Len(included),
                               { i \in 1..Len(included) : IsUpdate(included[i]) })
    IN  [k \in 1..Len(order) |-> included[order[k]]]

postElementsIncludedToo(raw) == Elements(raw) \o IncludedUpdates(raw)

postElements(raw) ==
    IF Len(Elements(raw)) = 0 THEN IncludedUpdates(raw) ELSE Elements(raw)

\* the FeedUpdate values one element can give
FeedUpdates(m) ==
    {[EntityURN   |-> getString(m, <<"entityUrn">>),
      UpdateType  |-> getString(m, <<"updateType">>),
      ActorURN    |-> getString(m, <<"actor", "entityUrn">>),
      PublishedAt |-> getInt64(m, "publishedAt"),
      Commentary  |-> c] : c \in findCommentaryTexts(m)}

RECURSIVE FeedUpdateLists(_)
FeedUpdateLists(elements) ==
    IF elements = <<>> THEN {<<>>}
    ELSE IF Head(elements).t # "obj" THEN FeedUpdateLists(Tail(elements))
    ELSE {<<u>> \o rest : u \in FeedUpdates(Head(elements)),
                          rest \in FeedUpdateLists(Tail(elements))}

\* ListProfilePosts after a successful Do: the lists it can return
PostsOf(raw) == FeedUpdateLists(postElements(raw))

(***************************************************************************)
(* Search results (linkedin.go: searchGraphQL) and the public identifier   *)
(* of a navigation URL (auth.go).                                          *)
(***************************************************************************)
\* strings.Index(s, sub) counted from 1; 0 when sub does not occur
IndexOf(s, sub) ==
    LET at == { i \in 1..(Len(s) - Len(sub) + 1) : SubSeq(s, i, i + Len(sub) - 1) = sub }
    IN  IF at = {} THEN 0 ELSE CHOOSE i \in at : \A j \in at : i <= j

HasPrefixString(s, prefix) == Len(s) >= Len(prefix) /\ SubSeq(s, 1, Len(prefix)) = prefix

\* strings.Trim(s, "/")
RECURSIVE TrimSlashes(_)
TrimSlashes(s) ==
    IF Len(s) > 0 /\ SubSeq(s, 1, 1) = "/" THEN TrimSlashes(SubSeq(s, 2, Len(s)))
    ELSE IF Len(s) > 0 /\ SubSeq(s, Len(s), Len(s)) = "/"
    THEN TrimSlashes(SubSeq(s, 1, Len(s) - 1))
    ELSE s

\* strings.Split(s, "/")
RECURSIVE SplitPath(_)
SplitPath(s) ==
    LET i == IndexOf(s, "/")
    IN  IF i = 0 THEN <<s>>
        ELSE <<SubSeq(s, 1, i - 1)>> \o SplitPath(SubSeq(s, i + 1, Len(s)))

\* s up to the first occurrence of ch
Before(s, ch) == IF IndexOf(s, ch) = 0 THEN s ELSE SubSeq(s, 1, IndexOf(s, ch) - 1)

\* url.Parse(s).Path of an absolute URL without percent escapes: what
\* follows the host, without the fragment and the query
URLPath(s) ==
    LET rest == Before(Before(SubSeq(s, IndexOf(s, "://") + 3, Len(s)), "#"), "?")
    IN  IF IndexOf(rest, "/") = 0 THEN ""
        ELSE SubSeq(rest, IndexOf(rest, "/"), Len(rest))

NormalizePublicIdentifier(str) ==
    LET AfterMark(parts, marks) ==
            IF marks # {} THEN parts[(CHOOSE i \in marks : \A j \in marks : i <= j) + 1]
            ELSE parts[Len(parts)]
        FromParts(parts) ==
            AfterMark(parts, { i \in 1..(Len(parts) - 1) : parts[i] \in {"in", "pub"} })
        FromBare(bare) ==
            IF ~Contains(bare, "linkedin.com/") THEN bare
            ELSE FromParts(SplitPath(TrimSlashes(URLPath(
                     IF HasPrefixString(bare, "http://") \/ HasPrefixString(bare, "https://")
                     THEN bare ELSE "https://" \o bare))))
        FromTrimmed(trimmed) ==
            FromBare(TrimSlashes(IF HasPrefixString(trimmed, "@")
                                 THEN SubSeq(trimmed, 2, Len(trimmed)) ELSE trimmed))
    IN  FromTrimmed(TrimSpaceString(str))

\* a field that is a string or an object with the string under "text"
getNestedText(m, key) ==
    IF key \notin DOMAIN m.o THEN ""
    ELSE IF m.o[key].t = "str" THEN m.o[key].s
    ELSE IF m.o[key].t = "obj" THEN getString(m.o[key], <<"text">>)
    ELSE ""

IsSearchResult(item) ==
    item.t = "obj" /\ Contains(getString(item, <<"$type">>), "EntityResultViewModel")

SearchItemOf(m) ==
    [PublicIdentifier  |-> IF getString(m, <<"navigationUrl">>) # ""
                           THEN NormalizePublicIdentifier(getString(m, <<"navigationUrl">>))
                           ELSE "",
     Title             |-> getNestedText(m, "title"),
     PrimarySubtitle   |-> getNestedText(m, "primarySubtitle"),
     SecondarySubtitle |-> getNestedText(m, "secondarySubtitle"),
     TargetURN         |-> getString(m, <<"entityUrn">>)]

\* searchGraphQL after a successful DoRaw: one item per result entity
SearchItems(raw) ==
    LET included == Included(raw)
        order == SelectIndexes(Len(included),
                               { i \in 1..Len(included) : IsSearchResult(included[i]) })
    IN  [k \in 1..Len(order) |-> SearchItemOf(included[order[k]])]

(***************************************************************************)
(* api.Client and NewClient (client.go).                                   *)
(***************************************************************************)
DefaultBaseURL ==
    [Host |-> <<"https://www.linkedin.com">>, Path |-> <<"/", "voyager", "/", "api">>,
     RawQuery |-> <<>>]

defaultUserAgent == <<"Mozilla/5.0 Chrome/144.0.0.0">>
defaultAcceptLanguage == <<"en-US,en;q=0.9">>

\* baseOpt: NoOption, or the URL given to WithBaseURL;
\* debugOpt: "off" (no WithDebug), "nil" (WithDebug(nil)) or "writer"
NoOption == [Host |-> <<>>, Path |-> <<>>, RawQuery |-> <<>>]

NewClient(cookies, baseOpt, debugOpt) ==
    [BaseURL   |-> IF baseOpt = NoOption THEN DefaultBaseURL ELSE baseOpt,
     Cookies   |-> cookies,
     UserAgent |-> defaultUserAgent,
     Debug     |-> debugOpt # "off",
     DebugOut  |-> IF debugOpt = "writer" THEN "writer" ELSE "discard"]

\* url.URL.String(): scheme and host, path, then "?" and the raw query
\* verbatim when there is one
URLString(u) ==
    u.Host \o u.Path \o (IF u.RawQuery # <<>> THEN <<"?">> \o u.RawQuery ELSE <<>>)

\* url.Values.Encode() of a list of (key, value) pairs held in key order:
\* each side is query-escaped (a space becomes "+"), pairs joined by "&"
QueryEscape(s) ==
    [i \in 1..Len(s) |-> IF s[i] = " " THEN "+" ELSE IF s[i] = "&" THEN "%26" ELSE s[i]]

RECURSIVE ValuesEncode(_)
ValuesEncode(q) ==
    IF q = <<>> THEN <<>>
    ELSE QueryEscape(Head(q)[1]) \o <<"=">> \o QueryEscape(Head(q)[2])
         \o (IF Tail(q) = <<>> THEN <<>> ELSE <<"&">> \o ValuesEncode(Tail(q)))

(***************************************************************************)
(* Errors.                                                                 *)
(***************************************************************************)
NoErr == [kind |-> "nil"]
NoReq == [kind |-> "noreq"]
NoCall == [api |-> "none"]

AuthErr == [kind |-> "auth", msg |-> "missing auth cookies (li_at, JSESSIONID)"]
MarshalErr == [kind |-> "marshal", msg |-> "marshal request json"]
NewRequestErr == [kind |-> "newrequest", msg |-> "new request"]
TransportErr(cause) == [kind |-> "transport", msg |-> "http do", cause |-> cause]
DecodeErr == [kind |-> "decode", msg |-> "decode response json"]
ArgErr(msg) == [kind |-> "argument", msg |-> msg]

HTTPError(method, url, status, body) ==
    [kind |-> "http", Method |-> method, URL |-> url, StatusCode |-> status, Body |-> body]

(***************************************************************************)
(* Requests (doInternal, first half: up to c.HTTP.Do).                     *)
(*                                                                         *)
(* A request body argument is [kind |-> "nil"], [kind |-> "bytes"],        *)
(* [kind |-> "value", v |-> payload] (marshalled as JSON) or               *)
(* [kind |-> "unmarshalable"] (a value json.Marshal rejects).              *)
(***************************************************************************)
NilBody == [kind |-> "nil"]
ValueBody(payload) == [kind |-> "value", v |-> payload]

ValidMethods == {"GET", "POST"}

\* u := *c.BaseURL; u.Path = TrimSuffix(u.Path, "/") + "/" + TrimPrefix(path, "/");
\* u.RawQuery = rawQuery when rawQuery is not empty
RequestURL(c, path, rawQuery) ==
    [Host     |-> c.BaseURL.Host,
     Path     |-> TrimSuffix(c.BaseURL.Path, "/") \o <<"/">> \o TrimPrefix(path, "/"),
     RawQuery |-> IF rawQuery # <<>> THEN rawQuery ELSE c.BaseURL.RawQuery]

NoOverrides == <<>>

MessagingOverrides ==
    [h \in {"content-type", "accept"} |->
        IF h = "content-type" THEN <<"text/plain;charset=UTF-8">>
        ELSE <<"application/json">>]

DefaultHeaderNames ==
    {"user-agent", "accept", "accept-language", "x-li-lang",
     "x-restli-protocol-version", "csrf-token", "cookie"}

RequestHeaders(c, body, headerOverrides) ==
    LET contentType == IF body.kind = "value"
                       THEN <<"application/json; charset=utf-8">> ELSE <<>>
        names == DefaultHeaderNames
                   \cup (IF contentType # <<>> THEN {"content-type"} ELSE {})
                   \cup DOMAIN headerOverrides
    IN  [h \in names |->
            IF h \in DOMAIN headerOverrides THEN headerOverrides[h]
            ELSE IF h = "user-agent" THEN c.UserAgent
            ELSE IF h = "accept" THEN <<"application/vnd.linkedin.normalized+json+2.1">>
            ELSE IF h = "accept-language" THEN defaultAcceptLanguage
            ELSE IF h = "x-li-lang" THEN <<"en_US">>
            ELSE IF h = "x-restli-protocol-version" THEN <<"2.0.0">>
            ELSE IF h = "csrf-token" THEN CSRFToken(c.Cookies)
            ELSE IF h = "cookie" THEN CookieHeader(c.Cookies)
            ELSE contentType]

\* fmt.Fprintf(c.DebugOut, ...) under "if c.Debug": what reaches the writer
DebugWrite(c, line) ==
    IF c.Debug /\ c.DebugOut = "writer" THEN <<line>> ELSE <<>>

RequestLineWithCookies(c, method, url) ==
    <<"[li] ", method, " ">> \o url \o <<" ">> \o CookieHeader(c.Cookies)

RequestLine(c, method, url) == <<"[li] ", method, " ">> \o url

ResponseLine(c, status, n) == <<"[li] -> ", status, " (", n, " bytes)">>

\* line 136: the credential check
MissingCookiesBoth(c) == c.Cookies.LiAt = <<>> /\ c.Cookies.JSessionID = <<>>

MissingCookies(c) == c.Cookies.LiAt = <<>> \/ c.Cookies.JSessionID = <<>>

\* The result of the first half: the error returned at once (and no request),
\* or the request handed to c.HTTP.Do, and the debug lines written.
doInternalSend(c, method, path, rawQuery, body, headerOverrides) ==
    IF MissingCookies(c)
    THEN [err |-> AuthErr, req |-> NoReq, debug |-> <<>>]
    ELSE IF body.kind = "unmarshalable"
    THEN [err |-> MarshalErr, req |-> NoReq, debug |-> <<>>]
    ELSE IF method \notin ValidMethods
    THEN [err |-> NewRequestErr, req |-> NoReq, debug |-> <<>>]
    ELSE LET u == URLString(RequestURL(c, path, rawQuery))
         IN  [err   |-> NoErr,
              req   |-> [kind |-> "request", Method |-> method, URL |-> u,
                         Header |-> RequestHeaders(c, body, headerOverrides),
                         Body |-> body],
              debug |-> DebugWrite(c, RequestLine(c, method, u))]

\* The three entry points. query is url.Values for Do, NilValues when nil,
\* and a raw string for the other two.
NilValues == [nil |-> TRUE]
Values(pairs) == [nil |-> FALSE, pairs |-> pairs]

Do(c, method, path, query, body) ==
    LET rawQuery == IF query.nil THEN <<>> ELSE ValuesEncode(query.pairs)
    IN  doInternalSend(c, method, path, rawQuery, body, NoOverrides)

DoRawEncoded(c, method, path, rawQuery, body) ==
    doInternalSend(c, method, path, QueryEscape(rawQuery), body, NoOverrides)

DoRaw(c, method, path, rawQuery, body) ==
    doInternalSend(c, method, path, rawQuery, body, NoOverrides)

DoMessaging(c, method, path, rawQuery, body) ==
    doInternalSend(c, method, path, rawQuery, body, MessagingOverrides)

(***************************************************************************)
(* Responses (doInternal, second half: after c.HTTP.Do returned).          *)
(*                                                                         *)
(* A body is [len, text, doc]: its length in bytes, whether its text is    *)
(* "empty", "space" (white space only), "json" (a JSON document, doc) or   *)
(* "garbage" (no JSON). Lengths count the text without surrounding space.  *)
(***************************************************************************)
SnippetMax == 2000
maxBody == 5 * 1048576

EmptyBody == [len |-> 0, text |-> "empty", doc |-> JNull]

Min(a, b) == IF a < b THEN a ELSE b

\* io.ReadAll(io.LimitReader(resp.Body, maxBody)) with its error dropped:
\* the first n bytes of the body; a JSON text that was cut stays a JSON
\* document only if nothing but trailing white space was cut (intact)
ReadBody(wire, n, intact) ==
    IF n >= wire.len THEN wire
    ELSE IF n = 0 THEN EmptyBody
    ELSE IF wire.text = "json" /\ ~intact
    THEN [len |-> n, text |-> "garbage", doc |-> JNull]
    ELSE [wire EXCEPT !.len = n]

RateLimitedBody == [text |-> "rate limited by LinkedIn, try again later", truncated |-> FALSE]

\* strings.TrimSpace(string(respBody)), cut to 2000 bytes plus an ellipsis
Snippet(respBody) ==
    IF respBody.text \in {"empty", "space"} THEN [text |-> "", truncated |-> FALSE]
    ELSE [text |-> respBody.text, len |-> Min(respBody.len, SnippetMax),
          truncated |-> respBody.len > SnippetMax]

\* json.Unmarshal(respBody, out) for out a *map[string]any holding cur
Unmarshal(respBody, cur) ==
    IF respBody.text = "json" /\ respBody.doc.t = "obj"
    THEN [err |-> NoErr, out |-> respBody.doc]
    ELSE [err |-> DecodeErr, out |-> cur]

\* lines 201-221: the status error of a response, NoErr for a 2xx
StatusErrorNoURL(method, url, status, respBody) ==
    IF status = 429 THEN HTTPError(method, <<>>, status, RateLimitedBody)
    ELSE IF status < 200 \/ status >= 300
    THEN HTTPError(method, url, status, Snippet(respBody))
    ELSE NoErr

StatusError(method, url, status, respBody) ==
    IF status = 429 THEN HTTPError(method, url, status, RateLimitedBody)
    ELSE IF status < 200 \/ status >= 300
    THEN HTTPError(method, url, status, Snippet(respBody))
    ELSE NoErr

\* lines 223-232: what a 2xx response does to the output target
DecodeIntoNoEmptyCheck(outNil, respBody, cur) ==
    IF outNil THEN [err |-> NoErr, out |-> cur]
    ELSE Unmarshal(respBody, cur)

DecodeInto(outNil, respBody, cur) ==
    IF outNil THEN [err |-> NoErr, out |-> cur]
    ELSE IF respBody.len = 0 THEN [err |-> NoErr, out |-> cur]
    ELSE Unmarshal(respBody, cur)

doInternalReceiveRetrying(c, method, outNil, rq, tr, cur) ==
    IF tr.kind = "error"
    THEN [pc |-> "done", sends |-> 0, err |-> TransportErr(tr.cause), out |-> cur,
          debug |-> <<>>]
    ELSE LET respBody == tr.read
             dbg == DebugWrite(c, ResponseLine(c, tr.status, respBody.len))
             statusErr == StatusError(method, rq.URL, tr.status, respBody)
             decoded == DecodeInto(outNil, respBody, cur)
         IN  IF tr.status = 429
             THEN [pc |-> "inflight", sends |-> 1, err |-> NoErr, out |-> cur,
                   debug |-> dbg]
             ELSE IF statusErr # NoErr
             THEN [pc |-> "done", sends |-> 0, err |-> statusErr, out |-> cur,
                   debug |-> dbg]
             ELSE [pc |-> "done", sends |-> 0, err |-> decoded.err, out |-> decoded.out,
                   debug |-> dbg]

\* tr is what c.HTTP.Do returned: [kind |-> "error", cause] or
\* [kind |-> "response", status, wire, read]; cur is the value out points to.
\* The result: where the call stands (doInternal returns in every branch),
\* how many more requests it handed to the transport (none: there is no
\* loop around c.HTTP.Do), the error, the output target, the debug lines.
doInternalReceive(c, method, outNil, rq, tr, cur) ==
    IF tr.kind = "error"
    THEN [pc |-> "done", sends |-> 0, err |-> TransportErr(tr.cause), out |-> cur,
          debug |-> <<>>]
    ELSE LET respBody == tr.read
             dbg == DebugWrite(c, ResponseLine(c, tr.status, respBody.len))
             statusErr == StatusError(method, rq.URL, tr.status, respBody)
             decoded == DecodeInto(outNil, respBody, cur)
         IN  IF statusErr # NoErr
             THEN [pc |-> "done", sends |-> 0, err |-> statusErr, out |-> cur,
                   debug |-> dbg]
             ELSE [pc |-> "done", sends |-> 0, err |-> decoded.err, out |-> decoded.out,
                   debug |-> dbg]

(***************************************************************************)
(* API operations (linkedin.go, messaging.go). Each is the call it makes   *)
(* on the client: Rejected when an argument check fails before any         *)
(* request, else the entry point and the arguments it passes.              *)
(***************************************************************************)
Rejected(api, args, e) == [api |-> api, args |-> args, pre |-> e]

Invoke(api, args, entry, method, path, query, body, outNil) ==
    [api |-> api, args |-> args, pre |-> NoErr, entry |-> entry, method |-> method,
     path |-> path, query |-> query, body |-> body, outNil |-> outNil]

SendMessage(mailboxURN, conversationURN, text) ==
    LET args == [mailboxURN |-> mailboxURN, conversationURN |-> conversationURN,
                 text |-> text]
        payload == [f \in {"body", "conversationUrn", "mailboxUrn"} |->
                       IF f = "body" THEN [text |-> text, attributes |-> <<>>]
                       ELSE IF f = "conversationUrn" THEN conversationURN
                       ELSE mailboxURN]
    IN  IF TrimSpace(text) = <<>>
        THEN Rejected("SendMessage", args, ArgErr("empty message text"))
        ELSE Invoke("SendMessage", args, "DoRaw", "POST",
                    <<"voyagerMessagingDashMessengerMessages">>,
                    <<"action=createMessage">>, ValueBody(payload), TRUE)

CreateConversationWithMessage(mailboxURN, recipientURNs, text) ==
    LET args == [mailboxURN |-> mailboxURN, recipientURNs |-> recipientURNs,
                 text |-> text]
        payload == [f \in {"message", "recipients", "mailboxUrn", "subtype"} |->
                       IF f = "message" THEN [text |-> text, attributes |-> <<>>]
                       ELSE IF f = "recipients" THEN recipientURNs
                       ELSE IF f = "mailboxUrn" THEN mailboxURN
                       ELSE <<"MEMBER_TO_MEMBER">>]
    IN  IF TrimSpace(text) = <<>>
        THEN Rejected("CreateConversationWithMessage", args, ArgErr("empty message text"))
        ELSE IF Len(recipientURNs) = 0
        THEN Rejected("CreateConversationWithMessage", args, ArgErr("no recipients"))
        ELSE Invoke("CreateConversationWithMessage", args, "DoRaw", "POST",
                    <<"voyagerMessagingDashMessengerConversations">>,
                    <<"action=create">>, ValueBody(payload), TRUE)

\* messaging.go 9-19, 76-88: the query ids; li holds the configured ones
DefaultConversationsQueryID ==
    <<"messengerConversations.9501074288a12f3ae9e3c7ea243bccbf">>
DefaultMessagesQueryID == <<"messengerMessages.5846eeb71c981f11e0134cb6626cc314">>
messagingGraphQLPath == <<"voyagerMessagingGraphQL/graphql">>

conversationsQueryID(li) ==
    IF li.ConversationsQueryID # <<>> THEN li.ConversationsQueryID
    ELSE DefaultConversationsQueryID

messagesQueryID(li) ==
    IF li.MessagesQueryID # <<>> THEN li.MessagesQueryID ELSE DefaultMessagesQueryID

\* fmt.Sprintf of the variables template; the characters of the tuple
\* syntax are tokens of their own
ConversationsVariables(count, encodedURN) ==
    <<"(", "query", ":", "(", "predicateUnions", ":", "List", "(", "(",
      "conversationCategoryPredicate", ":", "(", "category", ":", "INBOX",
      ")", ")", ")", ")", ",", "count", ":", ToString(count), ",", "mailboxUrn", ":">>
      \o encodedURN \o <<")">>

MessagesVariables(encodedURN) == <<"(", "conversationUrn", ":">> \o encodedURN \o <<")">>

GraphQLRawQuery(variables, queryID) ==
    <<"variables", "=">> \o variables \o <<"&", "queryId", "=">> \o queryID

ListConversations(li, profileURN, count) ==
    LET args == [li |-> li, profileURN |-> profileURN, count |-> count]
        n == IF count <= 0 THEN 20 ELSE count
        variables == ConversationsVariables(n, encodeURNValue(profileURN))
    IN  IF TrimSpace(profileURN) = <<>>
        THEN Rejected("ListConversations", args, ArgErr("empty profile URN"))
        ELSE Invoke("ListConversations", args, "DoRaw", "GET", messagingGraphQLPath,
                    GraphQLRawQuery(variables, conversationsQueryID(li)), NilBody, FALSE)

GetMessages(li, conversationURN, count) ==
    LET args == [li |-> li, conversationURN |-> conversationURN, count |-> count]
        variables == MessagesVariables(encodeURNValue(conversationURN))
    IN  IF TrimSpace(conversationURN) = <<>>
        THEN Rejected("GetMessages", args, ArgErr("empty conversation URN"))
        ELSE Invoke("GetMessages", args, "DoRaw", "GET", messagingGraphQLPath,
                    GraphQLRawQuery(variables, messagesQueryID(li)), NilBody, FALSE)

(***************************************************************************)
(* Search (the GraphQL version of linkedin.go).                            *)
(***************************************************************************)
\* url.PathEscape of one character: letters, digits, - _ . ~ and the
\* reserved $ & + = : @ are kept; every other character is written as
\* %XX. The characters listed are the ones the inputs are drawn from.
PathEscapeChar(ch) ==
    CASE ch = " " -> <<"%", "2", "0">>
      [] ch = QUOTE -> <<"%", "2", "2">>
      [] ch = "#" -> <<"%", "2", "3">>
      [] ch = "%" -> <<"%", "2", "5">>
      [] ch = "(" -> <<"%", "2", "8">>
      [] ch = ")" -> <<"%", "2", "9">>
      [] ch = "," -> <<"%", "2", "C">>
      [] ch = "/" -> <<"%", "2", "F">>
      [] ch = ";" -> <<"%", "3", "B">>
      [] ch = "?" -> <<"%", "3", "F">>
      [] OTHER -> <<ch>>

PathEscape(s) == Flatten([i \in 1..Len(s) |-> PathEscapeChar(s[i])])

\* strings.ReplaceAll for a one-character old
ReplaceAll(s, old, new) == Flatten([i \in 1..Len(s) |-> IF s[i] = old THEN new ELSE <<s[i]>>])

\* url.QueryEscape instead, and no replacement of "+"
escapedKWPlus(keywords) ==
    Flatten([i \in 1..Len(keywords) |->
                IF keywords[i] = " " THEN <<"+">> ELSE PathEscapeChar(keywords[i])])

escapedKW(keywords) == ReplaceAll(PathEscape(keywords), "+", <<"%", "2", "0">>)

DefaultSearchQueryID ==
    <<"voyagerSearchDashClusters.ef3d0937fb65bd7812e32e5a85028e79">>

searchQueryID(li) ==
    IF li.SearchQueryID # <<>> THEN li.SearchQueryID ELSE DefaultSearchQueryID

SearchVariables(start, escaped, resultType) ==
    <<"(", "start", ":", ToString(start), ",", "origin", ":", "OTHER", ",", "query", ":",
      "(", "keywords", ":">> \o escaped
      \o <<",", "flagshipSearchIntent", ":", "SEARCH_SRP", ",", "queryParameters", ":",
           "List", "(", "(", "key", ":", "resultType", ",", "value", ":", "List", "(",
           resultType, ")", ")", ")", ",", "includeFiltersInResponse", ":", "false",
           ")", ")">>

SearchRawQuery(li, keywords, resultType, start) ==
    <<"includeWebMetadata", "=", "true", "&", "variables", "=">>
      \o SearchVariables(start, escapedKW(keywords), resultType)
      \o <<"&", "queryId", "=">> \o searchQueryID(li)

CreatePostFixedFields ==
    {"commentary", "visibility", "distribution", "lifecycleState",
     "isReshareDisabledByAuthor", "shareMediaCategory"}

CreatePostPayloadAlwaysTracked(trackingID, ownerURN, text) ==
    [f \in CreatePostFixedFields \cup {"trackingId"}
           \cup (IF ownerURN # <<>> THEN {"owner"} ELSE {}) |->
        IF f = "commentary" THEN text
        ELSE IF f = "trackingId" THEN trackingID
        ELSE IF f = "owner" THEN ownerURN
        ELSE <<f>>]

\* lines 146-167: the fixed fields hold constants (written <<f>> here)
CreatePostPayload(trackingID, ownerURN, text) ==
    [f \in CreatePostFixedFields
           \cup (IF trackingID # <<>> THEN {"trackingId"} ELSE {})
           \cup (IF ownerURN # <<>> THEN {"owner"} ELSE {}) |->
        IF f = "commentary" THEN text
        ELSE IF f = "trackingId" THEN trackingID
        ELSE IF f = "owner" THEN ownerURN
        ELSE <<f>>]

\* rnd is what the random source gives when RandomTrackingID reads it
CreatePost(rnd, ownerURN, text) ==
    LET args == [rnd |-> rnd, ownerURN |-> ownerURN, text |-> text]
        trackingID == RandomTrackingID(rnd).id
    IN  IF TrimSpace(text) = <<>>
        THEN Rejected("CreatePost", args, ArgErr("post text is empty"))
        ELSE Invoke("CreatePost", args, "Do", "POST",
                    <<"/", "contentcreation", "/", "normShares">>, NilValues,
                    ValueBody(CreatePostPayload(trackingID, ownerURN, text)), FALSE)

ConnectPayload(trackingID, profileID, note) ==
    [f \in {"emberEntityName", "invitee"}
           \cup (IF trackingID # <<>> THEN {"trackingId"} ELSE {})
           \cup (IF TrimSpace(note) # <<>> THEN {"customMessage"} ELSE {}) |->
        IF f = "emberEntityName" THEN <<"growth/invitation/norm-invitation">>
        ELSE IF f = "invitee" THEN profileID
        ELSE IF f = "trackingId" THEN trackingID
        ELSE note]

Connect(rnd, profileID, note) ==
    LET args == [rnd |-> rnd, profileID |-> profileID, note |-> note]
        trimmed == TrimSpace(profileID)
        trackingID == RandomTrackingID(rnd).id
    IN  IF trimmed = <<>>
        THEN Rejected("Connect", args, ArgErr("empty profile id"))
        ELSE Invoke("Connect", args, "Do", "POST",
                    <<"/", "growth", "/", "normInvitations">>, NilValues,
                    ValueBody(ConnectPayload(trackingID, trimmed, note)), TRUE)

Follow(memberURN) ==
    LET args == [memberURN |-> memberURN]
        trimmed == TrimSpace(memberURN)
    IN  IF trimmed = <<>>
        THEN Rejected("Follow", args, ArgErr("empty member urn"))
        ELSE IF ~HasPrefix(trimmed, "urn:li:member:")
        THEN Rejected("Follow", args, ArgErr("unexpected member urn"))
        ELSE Invoke("Follow", args, "Do", "POST", <<"/", "feed", "/", "follows">>,
                    Values(<<<<<<"action">>, <<"followByEntityUrn">>>>>>),
                    ValueBody([urn |-> <<"urn:li:fs_followingInfo:">> \o trimmed]), TRUE)

\* GetProfile (linkedin.go): the dash profile lookup by member identity
GetProfile(publicIdentifierOrURN) ==
    LET args == [publicIdentifierOrURN |-> publicIdentifierOrURN]
        id == TrimSpace(publicIdentifierOrURN)
    IN  IF id = <<>>
        THEN Rejected("GetProfile", args, ArgErr("empty profile identifier"))
        ELSE Invoke("GetProfile", args, "Do", "GET",
                    <<"/", "identity", "/", "dash", "/", "profiles">>,
                    Values(<<<<<<"memberIdentity">>, id>>, <<<<"q">>, <<"memberIdentity">>>>>>),
                    NilBody, FALSE)

\* ListProfilePosts (linkedin.go): count and start are put right, then sent
ListProfilePosts(profileURN, start, count) ==
    LET args == [profileURN |-> profileURN, start |-> start, count |-> count]
        n == IF count <= 0 THEN 10 ELSE count
        from == IF start < 0 THEN 0 ELSE start
    IN  IF TrimSpace(profileURN) = <<>>
        THEN Rejected("ListProfilePosts", args, ArgErr("empty profile identifier"))
        ELSE Invoke("ListProfilePosts", args, "Do", "GET",
                    <<"/", "feed", "/", "dash", "/", "updates">>,
                    Values(<<<<<<"count">>, <<ToString(n)>>>>,
                             <<<<"moduleKey">>, <<"member-share">>>>,
                             <<<<"profileUrn">>, profileURN>>,
                             <<<<"q">>, <<"memberShareFeed">>>>,
                             <<<<"start">>, <<ToString(from)>>>>>>),
                    NilBody, FALSE)

searchGraphQLEmptyOnly(api, li, keywords, resultType, start, count) ==
    LET args == [li |-> li, keywords |-> keywords, start |-> start, count |-> count]
    IN  IF keywords = <<>>
        THEN Rejected(api, args, ArgErr("empty query"))
        ELSE Invoke(api, args, "DoRaw", "GET", <<"/", "graphql">>,
                    SearchRawQuery(li, keywords, resultType, IF start < 0 THEN 0 ELSE start),
                    NilBody, FALSE)

\* searchGraphQL (linkedin.go): count is put right and not used after that
searchGraphQL(api, li, keywords, resultType, start, count) ==
    LET args == [li |-> li, keywords |-> keywords, start |-> start, count |-> count]
        from == IF start < 0 THEN 0 ELSE start
    IN  IF TrimSpace(keywords) = <<>>
        THEN Rejected(api, args, ArgErr("empty query"))
        ELSE Invoke(api, args, "DoRaw", "GET", <<"/", "graphql">>,
                    SearchRawQuery(li, keywords, resultType, from), NilBody, FALSE)

SearchPeople(li, keywords, start, count) ==
    searchGraphQL("SearchPeople", li, keywords, "PEOPLE", start, count)

SearchJobs(li, keywords, start, count) ==
    searchGraphQL("SearchJobs", li, keywords, "JOBS", start, count)

\* what the operation returns besides its error: CreatePost's EntityURN
\* (linkedin.go 174-181), the parsed list of ListConversations and GetMessages
\* (messaging.go 117, 137), the Profile, the FeedUpdates and the SearchItems
\* of GetProfile, ListProfilePosts and the searches, nothing for the others
Results(k, e, raw) ==
    IF k.api = "CreatePost" /\ e = NoErr
    THEN IF getString(raw, <<"entityUrn">>) # ""
         THEN {[EntityURN |-> getString(raw, <<"entityUrn">>)]}
         ELSE IF getString(raw, <<"data", "entityUrn">>) # ""
         THEN {[EntityURN |-> getString(raw, <<"data", "entityUrn">>)]}
         ELSE {[EntityURN |-> u] : u \in findFirstStrings(raw, "entityUrn")}
    ELSE IF k.api = "CreatePost" THEN {[EntityURN |-> ""]}
    ELSE IF k.api = "ListConversations"
    THEN IF e = NoErr THEN {[convos |-> c] : c \in ParseConversations(raw)}
         ELSE {[convos |-> <<>>]}
    ELSE IF k.api = "GetMessages"
    THEN IF e = NoErr THEN {[msgs |-> c] : c \in ParseMessages(raw)}
         ELSE {[msgs |-> <<>>]}
    ELSE IF k.api = "GetProfile"
    THEN {[profile |-> IF e = NoErr THEN ProfileOf(raw) ELSE ZeroProfile]}
    ELSE IF k.api = "ListProfilePosts"
    THEN IF e = NoErr THEN {[posts |-> p] : p \in PostsOf(raw)} ELSE {[posts |-> <<>>]}
    ELSE IF k.api \in {"SearchPeople", "SearchJobs"}
    THEN {[items |-> IF e = NoErr THEN SearchItems(raw) ELSE <<>>]}
    ELSE {None}

(***************************************************************************)
(* Inputs drawn by the model.                                              *)
(***************************************************************************)
LiAts == {<<>>, <<"A">>}
JSessionIDs == {<<>>, <<"a", "j", "a", "x">>, <<QUOTE, "a", "j", "a", "x", QUOTE>>}
TestBaseURL ==
    [Host |-> <<"http://127.0.0.1:8080">>, Path |-> <<"/", "voyager", "/", "api", "/">>,
     RawQuery |-> <<>>]
BaseOpts == {NoOption, TestBaseURL}
DebugOpts == {"off", "nil", "writer"}

Clients ==
    { NewClient([LiAt |-> a, JSessionID |-> j], b, d) :
        a \in LiAts, j \in JSessionIDs, b \in BaseOpts, d \in DebugOpts }

\* arguments of a direct call of an entry point: one plain call and its
\* variations in the method, the path, the query, the body and the target
PlainArgs ==
    [method |-> "GET", path |-> <<"/", "me">>, hasQuery |-> FALSE, body |-> NilBody,
     outNil |-> FALSE]

DirectArgs ==
    {PlainArgs}
      \cup {[PlainArgs EXCEPT !.method = m] : m \in {"POST", "GE T"}}
      \cup {[PlainArgs EXCEPT !.path = <<"graphql">>, !.hasQuery = TRUE]}
      \cup {[PlainArgs EXCEPT !.method = "POST", !.body = b, !.outNil = o] :
               b \in {[kind |-> "bytes"], ValueBody([k |-> <<"v">>]),
                      [kind |-> "unmarshalable"]},
               o \in BOOLEAN}
      \cup {[PlainArgs EXCEPT !.outNil = TRUE]}

SampleValues == Values(<<<<<<"q">>, <<"a", " ", "b">>>>>>)
SampleRawQuery == <<"variables=(a:b)&queryId=q.1">>

Texts == {<<>>, <<" ">>, <<"h", "i">>}
URNs == {<<>>, <<"urn:li:fsd_profile:", "A">>}
MemberURNs == {<<>>, <<"urn:li:fsd_profile:", "A">>, <<"urn:li:member:", "42">>}
RandomReads ==
    {[fail |-> TRUE],
     [fail |-> FALSE, bytes |-> [i \in 1..TokenLen |-> 0]],
     [fail |-> FALSE, bytes |-> [i \in 1..TokenLen |-> (17 * i) % 256]]}

LinkedIns ==
    {[ConversationsQueryID |-> <<>>, MessagesQueryID |-> <<>>],
     [ConversationsQueryID |-> <<"conv.1">>, MessagesQueryID |-> <<"msgs.1">>]}
GraphURNs ==
    {<<>>, <<" ">>,
     <<"urn", ":", "li", ":", "fsd_profile", ":", "AAA">>,
     <<"urn", ":", "li", ":", "msg_conversation", ":", "(", "urn", ":", "li", ":",
       "fsd_profile", ":", "AAA", ",", "2-abc", ")">>,
     <<"a", "%", "2", "5", "b">>}
\* an identifier that holds the characters that end a parameter, a name and
\* the query of a URL
SyntaxURNs == {<<"A", "&", "queryId", "=", "x", "#", "f">>}
Counts == {0, 5}

\* entities of a messaging response; refs are the reference fields of the
\* entity, by field name
TextObj(s) == JObj([text |-> JStr(s)])

ParticipantEntity(urn, first, last) ==
    JObj("$type" :> JStr(ParticipantType) @@ "entityUrn" :> JStr(urn)
         @@ "hostIdentityUrn" :> JStr("urn:li:fsd_profile:" \o urn)
         @@ "participantType" :>
              JObj([member |-> JObj([firstName |-> TextObj(first),
                                     lastName |-> TextObj(last)])]))

MessageEntity(urn, at, refs) ==
    JObj("$type" :> JStr(MessageType) @@ "entityUrn" :> JStr(urn)
         @@ "body" :> TextObj("text of " \o urn) @@ "deliveredAt" :> JNum(at) @@ refs)

ConversationEntity(urn, refs) ==
    JObj("$type" :> JStr(ConversationType) @@ "entityUrn" :> JStr(urn) @@ refs)

NoRefs == [x \in {} |-> JNull]

MessagingDoc ==
    JObj([included |->
            JArr(<<ConversationEntity("c1", "*conversationParticipants" :> JArr(<<JStr("p1")>>)
                                            @@ "*lastMessage" :> JStr("m1")),
                   MessageEntity("m1", 100, "*sender" :> JStr("p1")),
                   ParticipantEntity("p1", "Ann", "Lee")>>)])

SearchResultType == "com.linkedin.voyager.dash.search.EntityResultViewModel"

\* a normalized response with two search results, an update and a profile
SearchDoc ==
    JObj([included |->
            JArr(<<JObj("$type" :> JStr(SearchResultType)
                        @@ "entityUrn" :> JStr("urn:li:fsd_entityResultViewModel:1")
                        @@ "title" :> TextObj("Ann Lee")
                        @@ "primarySubtitle" :> JStr("Engineer")
                        @@ "navigationUrl" :> JStr("https://www.linkedin.com/in/ann-lee?trk=1")),
                   JObj("$type" :> JStr("com.linkedin.voyager.feed.Update")
                        @@ "entityUrn" :> JStr("urn:li:fs_update:3")
                        @@ "commentary" :> TextObj("first")),
                   JObj("$type" :> JStr(SearchResultType)
                        @@ "entityUrn" :> JStr("urn:li:fsd_entityResultViewModel:2")
                        @@ "title" :> JStr("Bob")),
                   JObj("$type" :> JStr("com.linkedin.voyager.dash.identity.profile.Profile")
                        @@ "entityUrn" :> JStr("urn:li:fsd_profile:ACoAAB1")
                        @@ "firstName" :> JStr("John"))>>)])

Docs ==
    {JObj([entityUrn |-> JStr("urn:li:share:1")]),
     JObj([data |-> JObj([entityUrn |-> JStr("urn:li:share:2")])]),
     JObj([value |-> JObj([entityUrn |-> JStr("urn:li:share:3")])]),
     MessagingDoc,
     SearchDoc,
     JArr(<<JStr("x")>>)}

SmallBodies ==
    {EmptyBody, [len |-> 1, text |-> "space", doc |-> JNull],
     [len |-> 40, text |-> "garbage", doc |-> JNull]}
      \cup {[len |-> 40, text |-> "json", doc |-> d] : d \in Docs}

LargeBodies ==
    {[len |-> SnippetMax + 1, text |-> "garbage", doc |-> JNull],
     [len |-> maxBody + 1, text |-> "json", doc |-> JObj([entityUrn |-> JStr("urn:li:share:1")])]}

\* what ReadAll returns for a body on the wire: all of it up to the limit,
\* or less when the read fails part way (here: at once, or after one byte)
Reads(wire) ==
    {ReadBody(wire, Min(wire.len, maxBody), intact) : intact \in BOOLEAN}
      \cup {ReadBody(wire, n, intact) : n \in {0, 1}, intact \in BOOLEAN}

Responses ==
    UNION {{[kind |-> "response", status |-> st, wire |-> w, read |-> rd] :
               st \in {200, 299}, rd \in Reads(w)} : w \in SmallBodies \cup LargeBodies}
      \cup {[kind |-> "response", status |-> st, wire |-> w, read |-> w] :
              st \in {101, 300, 403, 429, 500},
              w \in {EmptyBody, [len |-> 1, text |-> "space", doc |-> JNull],
                     [len |-> 40, text |-> "json", doc |-> JObj([entityUrn |-> JStr("urn:li:share:1")])],
                     [len |-> SnippetMax + 1, text |-> "garbage", doc |-> JNull]}}

\* a response whose body read is ended by the caller's context (cancelled,
\* or past its deadline) at once or after one byte: ReadAll returns what it
\* has read and the context's error, which line 195 drops
InterruptedReads ==
    {[kind |-> "interrupted", cause |-> cause, status |-> st, wire |-> w,
      read |-> ReadBody(w, n, FALSE)] :
        cause \in {"canceled", "deadline"}, st \in {200, 403}, n \in {0, 1},
        w \in {[len |-> 40, text |-> "json", doc |-> JObj([entityUrn |-> JStr("urn:li:share:1")])],
               [len |-> SnippetMax + 1, text |-> "garbage", doc |-> JNull]}}

(***************************************************************************)
(* The state machine. Every run in DOMAIN client executes the same call    *)
(* on its own Client and gets the same answer from the transport.          *)
(***************************************************************************)
Runs == DOMAIN client

Dispatch(c, k) ==
    IF k.pre # NoErr THEN [err |-> k.pre, req |-> NoReq, debug |-> <<>>]
    ELSE IF k.entry = "Do" THEN Do(c, k.method, k.path, k.query, k.body)
    ELSE IF k.entry = "DoRaw" THEN DoRaw(c, k.method, k.path, k.query, k.body)
    ELSE DoMessaging(c, k.method, k.path, k.query, k.body)

\* one of the possible results for every run
PerRun(res) ==
    { f \in [DOMAIN res -> UNION {res[r] : r \in DOMAIN res}] :
        \A r \in DOMAIN res : f[r] \in res[r] }

\* the operation is called: argument checks, then doInternal up to c.HTTP.Do
Issue(k) ==
    /\ call = NoCall
    /\ call' = k
    /\ LET s == [r \in Runs |-> Dispatch(client[r], k)]
       IN  /\ pc' = [r \in Runs |-> IF s[r].req = NoReq THEN "done" ELSE "inflight"]
           /\ req' = [r \in Runs |-> s[r].req]
           /\ sent' = [r \in Runs |-> IF s[r].req = NoReq THEN sent[r] ELSE sent[r] + 1]
           /\ err' = [r \in Runs |-> s[r].err]
           /\ debugOut' = [r \in Runs |-> debugOut[r] \o s[r].debug]
           /\ result' \in PerRun([r \in Runs |-> Results(k, s[r].err, JNull)])
    /\ UNCHANGED <<client, out, resp, arg, ret>>

CallDo ==
    /\ call = NoCall
    /\ \E a \in DirectArgs :
          Issue(Invoke("Do", None, "Do", a.method, a.path,
                       IF a.hasQuery THEN SampleValues ELSE NilValues, a.body, a.outNil))

CallDoRaw ==
    /\ call = NoCall
    /\ \E a \in DirectArgs :
          Issue(Invoke("DoRaw", None, "DoRaw", a.method, a.path,
                       IF a.hasQuery THEN SampleRawQuery ELSE <<>>, a.body, a.outNil))

CallDoMessaging ==
    /\ call = NoCall
    /\ \E a \in DirectArgs :
          Issue(Invoke("DoMessaging", None, "DoMessaging", a.method, a.path,
                       IF a.hasQuery THEN SampleRawQuery ELSE <<>>, a.body, a.outNil))

CallSendMessage ==
    /\ call = NoCall
    /\ \E mb \in URNs, cv \in URNs, text \in Texts : Issue(SendMessage(mb, cv, text))

CallCreateConversationWithMessage ==
    /\ call = NoCall
    /\ \E mb \in URNs, rcp \in {<<>>, <<<<"urn:li:fsd_profile:", "B">>>>}, text \in Texts :
        Issue(CreateConversationWithMessage(mb, rcp, text))

CallCreatePost ==
    /\ call = NoCall
    /\ \E rnd \in RandomReads, owner \in URNs, text \in Texts :
        Issue(CreatePost(rnd, owner, text))

CallConnect ==
    /\ call = NoCall
    /\ \E rnd \in RandomReads, id \in {<<>>, <<" ">>, <<"ACoAAA">>}, note \in Texts :
        Issue(Connect(rnd, id, note))

CallFollow ==
    /\ call = NoCall
    /\ \E urn \in MemberURNs : Issue(Follow(urn))

CallListConversations ==
    /\ call = NoCall
    /\ \/ \E li \in LinkedIns, urn \in GraphURNs, count \in Counts :
              Issue(ListConversations(li, urn, count))
       \/ \E li \in LinkedIns, urn \in SyntaxURNs : Issue(ListConversations(li, urn, 5))

CallGetMessages ==
    /\ call = NoCall
    /\ \/ \E li \in LinkedIns, urn \in GraphURNs, count \in Counts :
              Issue(GetMessages(li, urn, count))
       \/ \E li \in LinkedIns, urn \in SyntaxURNs : Issue(GetMessages(li, urn, 5))

SearchLinkedIns == {[SearchQueryID |-> <<>>], [SearchQueryID |-> <<"search.1">>]}
Keywords == {<<>>, <<" ">>, <<"a", " ", "b">>}
\* the paging arguments of a call: none given, or both
Pages == {[start |-> -1, count |-> 0], [start |-> 3, count |-> 1]}
ProfileIDs == {<<>>, <<" ">>, <<"john-doe">>}

IssueGetProfile ==
    /\ call = NoCall
    /\ \E id \in ProfileIDs : Issue(GetProfile(id))

IssueListProfilePosts ==
    /\ call = NoCall
    /\ \E urn \in URNs \cup {<<" ">>}, page \in Pages :
        Issue(ListProfilePosts(urn, page.start, page.count))

CallSearchPeople ==
    /\ call = NoCall
    /\ \E li \in SearchLinkedIns, keywords \in Keywords, page \in Pages :
        Issue(SearchPeople(li, keywords, page.start, page.count))

CallSearchJobs ==
    /\ call = NoCall
    /\ \E li \in SearchLinkedIns, keywords \in Keywords, page \in Pages :
        Issue(SearchJobs(li, keywords, page.start, page.count))

\* c.HTTP.Do returns tr to every run that waits in it
Receive(tr) ==
    /\ \E r \in Runs : pc[r] = "inflight"
    /\ LET waits(r) == pc[r] = "inflight"
           d == [r \in Runs |->
                    IF waits(r)
                    THEN doInternalReceive(client[r], call.method, call.outNil, req[r], tr,
                                           out[r])
                    ELSE [pc |-> pc[r], sends |-> 0, err |-> err[r], out |-> out[r],
                          debug |-> <<>>]]
       IN  /\ pc' = [r \in Runs |-> d[r].pc]
           /\ sent' = [r \in Runs |-> sent[r] + d[r].sends]
           /\ err' = [r \in Runs |-> d[r].err]
           /\ out' = [r \in Runs |-> d[r].out]
           /\ debugOut' = [r \in Runs |-> debugOut[r] \o d[r].debug]
           /\ resp' = [r \in Runs |-> IF waits(r) THEN tr ELSE resp[r]]
           /\ result' \in PerRun([r \in Runs |-> Results(call, d[r].err, d[r].out)])
    /\ UNCHANGED <<client, call, req, arg, ret>>

TransportFails ==
    /\ \E r \in Runs : pc[r] = "inflight"
    /\ \E cause \in {"network", "canceled"} : Receive([kind |-> "error", cause |-> cause])

TransportResponds ==
    /\ \E r \in Runs : pc[r] = "inflight"
    /\ \E tr \in Responses : Receive(tr)

\* the caller's context ends while the response body is being read
ContextEndsDuringRead ==
    /\ \E r \in Runs : pc[r] = "inflight"
    /\ \E tr \in InterruptedReads : Receive(tr)

\* the operation has returned to its caller, which may call again
Return ==
    /\ call # NoCall
    /\ \A r \in Runs : pc[r] = "done"
    /\ call' = NoCall
    /\ pc' = [r \in Runs |-> "idle"]
    /\ req' = [r \in Runs |-> NoReq]
    /\ sent' = [r \in Runs |-> 0]
    /\ err' = [r \in Runs |-> NoErr]
    /\ out' = [r \in Runs |-> JNull]
    /\ debugOut' = [r \in Runs |-> <<>>]
    /\ resp' = [r \in Runs |-> None]
    /\ result' = [r \in Runs |-> None]
    /\ UNCHANGED <<client, arg, ret>>

Idle(rs) ==
    /\ call = NoCall
    /\ pc = [r \in rs |-> "idle"]
    /\ req = [r \in rs |-> NoReq]
    /\ sent = [r \in rs |-> 0]
    /\ err = [r \in rs |-> NoErr]
    /\ out = [r \in rs |-> JNull]
    /\ debugOut = [r \in rs |-> <<>>]
    /\ resp = [r \in rs |-> None]
    /\ result = [r \in rs |-> None]

\* one Client, as NewClient built it
Init ==
    /\ client \in [{1} -> Clients]
    /\ Idle({1})
    /\ arg = None
    /\ ret = None

Next ==
    \/ CallDo
    \/ CallDoRaw
    \/ CallDoMessaging
    \/ CallSendMessage
    \/ CallCreateConversationWithMessage
    \/ CallCreatePost
    \/ CallConnect
    \/ CallFollow
    \/ CallListConversations
    \/ CallGetMessages
    \/ IssueGetProfile
    \/ IssueListProfilePosts
    \/ CallSearchPeople
    \/ CallSearchJobs
    \/ TransportFails
    \/ TransportResponds
    \/ ContextEndsDuringRead
    \/ Return

Spec == Init /\ [][Next]_vars

(***************************************************************************)
(* Two clients that differ in nothing but their credentials make the same  *)
(* calls of the entry points and get the same answers.                     *)
(***************************************************************************)
PairLiAts == {<<>>, <<"A">>, <<"B">>}

PairClients ==
    { NewClient([LiAt |-> a, JSessionID |-> j], NoOption, d) :
        a \in PairLiAts, j \in JSessionIDs, d \in DebugOpts }

InitPair ==
    /\ client \in { f \in [{1, 2} -> PairClients] :
                      f[2] = [f[1] EXCEPT !.Cookies = f[2].Cookies] }
    /\ Idle({1, 2})
    /\ arg = None
    /\ ret = None

NextPair ==
    \/ CallDo
    \/ CallDoRaw
    \/ CallDoMessaging
    \/ TransportFails
    \/ TransportResponds
    \/ Return

SpecPair == InitPair /\ [][NextPair]_vars

(***************************************************************************)
(* The string functions on their own: Init draws the input, the action     *)
(* applies the function.                                                   *)
(***************************************************************************)
NoRuns ==
    /\ client = <<>>
    /\ Idle({})

execVars == <<client, call, pc, req, sent, out, err, debugOut, resp, result>>

CookieAlphabet == {QUOTE, BACKSLASH, "a", ":"}

InitCookies ==
    /\ NoRuns
    /\ arg \in { [LiAt |-> a, JSessionID |-> j] :
                   a \in {<<>>, <<"A">>}, j \in StrsUpTo(CookieAlphabet, MaxLen) }
    /\ ret = None

\* doInternal lines 174-175: the two headers made from the cookies
SetAuthHeaders ==
    /\ ret = None
    /\ ret' = [csrf |-> CSRFToken(arg), cookie |-> CookieHeader(arg)]
    /\ UNCHANGED <<arg, execVars>>

SpecCookies == InitCookies /\ [][SetAuthHeaders]_vars

\* reads of the random source: every byte value at every position
TokenReads ==
    {[fail |-> TRUE]}
      \cup {[fail |-> FALSE, bytes |-> [i \in 1..TokenLen |-> (a + m * (i - 1)) % 256]] :
              a \in 0..255, m \in {0, 1, 37}}

InitToken ==
    /\ NoRuns
    /\ arg \in TokenReads
    /\ ret = None

GenerateToken ==
    /\ ret = None
    /\ ret' = RandomTrackingID(arg)
    /\ UNCHANGED <<arg, execVars>>

SpecToken == InitToken /\ [][GenerateToken]_vars

URNAlphabet == {":", "(", ")", ",", "a", "%", "&"}

InitURN ==
    /\ NoRuns
    /\ arg \in StrsUpTo(URNAlphabet, MaxLen)
    /\ ret = None

EncodeURN ==
    /\ ret = None
    /\ ret' = [encoded |-> encodeURNValue(arg)]
    /\ UNCHANGED <<arg, execVars>>

SpecURN == InitURN /\ [][EncodeURN]_vars

KeywordAlphabet == {" ", "+", ":", "&", ",", "%", "a"}

InitSearch ==
    /\ NoRuns
    /\ arg \in { [li |-> [SearchQueryID |-> q], keywords |-> k, resultType |-> t,
                  start |-> st] :
                   q \in {<<>>}, k \in StrsUpTo(KeywordAlphabet, MaxLen),
                   t \in {"PEOPLE"}, st \in {-1, 3} }
    /\ ret = None

\* searchGraphQL up to the call of DoRaw
BuildSearchQuery ==
    /\ ret = None
    /\ ret' = IF TrimSpace(arg.keywords) = <<>>
              THEN [err |-> ArgErr("empty query")]
              ELSE [err |-> NoErr, escaped |-> escapedKW(arg.keywords),
                    rawQuery |-> SearchRawQuery(arg.li, arg.keywords, arg.resultType,
                                                IF arg.start < 0 THEN 0 ELSE arg.start)]
    /\ UNCHANGED <<arg, execVars>>

SpecSearch == InitSearch /\ [][BuildSearchQuery]_vars

(***************************************************************************)
(* The response parsers on their own.                                      *)
(***************************************************************************)
MaxEntities == 3

EntityPool ==
    {ParticipantEntity("p1", "Ann", "Lee"),
     ParticipantEntity("p2", "Bob", ""),
     MessageEntity("m1", 100, "*sender" :> JStr("p1")),
     MessageEntity("m2", 100, "sender" :> JStr("p2")),
     MessageEntity("m3", 50, "*sender" :> JStr("p2") @@ "sender" :> JStr("p1")),
     JObj("$type" :> JStr(MessageType) @@ "deliveredAt" :> JNum(70)),
     ConversationEntity("c1", "*conversationParticipants" :> JArr(<<JStr("p1"), JStr("p2")>>)
                              @@ "*lastMessage" :> JStr("m1")),
     ConversationEntity("c2", "conversationParticipants" :> JArr(<<JStr("p2"), JStr("p1")>>)
                              @@ "lastMessage" :> JStr("m2")),
     ConversationEntity("c3", "*conversationParticipants" :> JArr(<<JStr("p2")>>)
                              @@ "conversationParticipants" :> JArr(<<JStr("p1")>>)
                              @@ "*lastMessage" :> JStr("m3")
                              @@ "lastMessage" :> JStr("m1")),
     JStr("junk")}

\* a whole response: the well-formed entities of the pool and a
\* conversation without references
Fixture ==
    <<ParticipantEntity("p1", "Ann", "Lee"),
      ParticipantEntity("p2", "Bob", ""),
      MessageEntity("m1", 100, "*sender" :> JStr("p1")),
      MessageEntity("m2", 100, "sender" :> JStr("p2")),
      MessageEntity("m3", 50, "*sender" :> JStr("p2") @@ "sender" :> JStr("p1")),
      ConversationEntity("c1", "*conversationParticipants" :> JArr(<<JStr("p1"), JStr("p2")>>)
                               @@ "*lastMessage" :> JStr("m1")),
      ConversationEntity("c2", "conversationParticipants" :> JArr(<<JStr("p2"), JStr("p1")>>)
                               @@ "lastMessage" :> JStr("m2")),
      ConversationEntity("c3", "*conversationParticipants" :> JArr(<<JStr("p2")>>)
                               @@ "conversationParticipants" :> JArr(<<JStr("p1")>>)
                               @@ "*lastMessage" :> JStr("m3")
                               @@ "lastMessage" :> JStr("m1")),
      ConversationEntity("c4", NoRefs)>>

Reverse(s) == [i \in 1..Len(s) |-> s[Len(s) + 1 - i]]

\* the arrays of up to n different entities of the pool, in every order
RECURSIVE ArraysUpTo(_)
ArraysUpTo(n) ==
    IF n = 0 THEN {<<>>}
    ELSE LET shorter == ArraysUpTo(n - 1)
         IN  shorter \cup UNION { {Append(a, e) : e \in EntityPool \ Range(a)} :
                                    a \in { b \in shorter : Len(b) = n - 1 } }

ParseInputs ==
    {JNull, JObj([data |-> JStr("x")]), JObj([included |-> JStr("x")]),
     JObj([included |-> JArr(<<JNull, JObj([entityUrn |-> JStr("untyped")]),
                               ConversationEntity("c4", NoRefs)>>)])}
      \cup { JObj([included |-> JArr(a)]) :
               a \in ArraysUpTo(MaxEntities) \cup {Fixture, Reverse(Fixture)} }

InitParse ==
    /\ NoRuns
    /\ arg \in ParseInputs
    /\ ret = None

CallParseConversations ==
    /\ ret = None
    /\ \E convos \in ParseConversations(arg) :
          ret' = [op |-> "ParseConversations", convos |-> convos]
    /\ UNCHANGED <<arg, execVars>>

CallParseMessages ==
    /\ ret = None
    /\ \E msgs \in ParseMessages(arg) : ret' = [op |-> "ParseMessages", msgs |-> msgs]
    /\ UNCHANGED <<arg, execVars>>

NextParse == CallParseConversations \/ CallParseMessages

SpecParse == InitParse /\ [][NextParse]_vars

MaxItems == 2

MiniProfileType == "com.linkedin.voyager.identity.shared.MiniProfile"
DashProfileType == "com.linkedin.voyager.dash.identity.profile.Profile"

\* the miniProfile objects of a /me response, by their fields
MiniProfiles ==
    {JObj([publicIdentifier |-> JStr("flat-user"), firstName |-> JStr("Flat"),
           lastName |-> JStr("User"), occupation |-> JStr("Tester"),
           entityUrn |-> JStr("urn:li:fs_miniProfile:FLAT001"),
           objectUrn |-> JStr("urn:li:member:111")]),
     JObj([publicIdentifier |-> JStr("dash-user"), firstName |-> JStr("Dash"),
           dashEntityUrn |-> JStr("urn:li:fsd_profile:D1")]),
     JObj([firstName |-> JStr("Nia"), objectUrn |-> JStr(" urn:li:member:42 ")]),
     JObj([firstName |-> JNum(7), lastName |-> JStr("Doe"),
           entityUrn |-> JStr("urn:li:fs_miniProfile:"),
           objectUrn |-> JStr("urn:li:member:9")]),
     JObj([publicIdentifier |-> JStr("no-urn"), occupation |-> JStr("Tester")])}

\* the same fields as an entity of the entity array, which names its type
AsEntity(mini) == JObj("$type" :> JStr(MiniProfileType) @@ mini.o)

FlatResponses ==
    {JObj([data |-> JObj([miniProfile |-> mp])]) : mp \in MiniProfiles}
      \cup {JObj([miniProfile |-> mp]) : mp \in MiniProfiles}

IndexedResponses ==
    {JObj([included |-> JArr(<<AsEntity(mp)>>)]) : mp \in MiniProfiles}
      \cup {JObj([data |-> JObj("*miniProfile" :> JStr("ref")),
                  included |-> JArr(<<mp>>)]) : mp \in MiniProfiles}

DashProfileEntity ==
    JObj("$type" :> JStr(DashProfileType) @@ "entityUrn" :> JStr("urn:li:fsd_profile:ACoAAB1")
         @@ "publicIdentifier" :> JStr("john-doe") @@ "firstName" :> JStr("John")
         @@ "lastName" :> JStr("Doe") @@ "headline" :> JStr("Engineer")
         @@ "locationName" :> JStr("Berlin") @@ "objectUrn" :> JStr("urn:li:member:123"))

\* elements of an entity array: two that GetProfile resolves, one that only
\* GetMe resolves, and elements that neither resolves
IdentityPool ==
    {DashProfileEntity,
     JObj([firstName |-> JStr("Nia"), geoLocationName |-> JStr("Oslo")]),
     JObj("$type" :> JStr(MiniProfileType) @@ "entityUrn" :> JStr("urn:li:fs_miniProfile:M1")
          @@ "lastName" :> JStr("Mini")),
     JObj("$type" :> JStr("com.linkedin.voyager.organization.Company")
          @@ "entityUrn" :> JStr("urn:li:fs_company:1") @@ "name" :> JStr("ACME")),
     JObj("$type" :> JStr(DashProfileType) @@ "entityUrn" :> JStr("urn:li:fs_profile:9")
          @@ "headline" :> JStr("Engineer") @@ "lastName" :> JStr("Doe")),
     JObj("$type" :> JNum(1) @@ "entityUrn" :> JArr(<<>>) @@ "headline" :> JStr("Engineer")),
     JNull,
     JStr("junk"),
     ParticipantEntity("p1", "Ann", "Lee"),
     MessageEntity("m1", 100, "*sender" :> JStr("p1"))}

RECURSIVE ArraysOver(_, _)
ArraysOver(pool, n) ==
    IF n = 0 THEN {<<>>}
    ELSE LET shorter == ArraysOver(pool, n - 1)
         IN  shorter \cup UNION { {Append(a, e) : e \in pool \ Range(a)} :
                                    a \in { b \in shorter : Len(b) = n - 1 } }

MaxURNLen == 2

URNCharacters == {":", "a", " "}

RECURSIVE StringsUpTo(_, _)
StringsUpTo(alphabet, n) ==
    IF n = 0 THEN {""}
    ELSE LET shorter == StringsUpTo(alphabet, n - 1)
         IN  shorter \cup {s \o ch : s \in shorter, ch \in alphabet}

URNStrings == StringsUpTo(URNCharacters, MaxURNLen)

\* a response with one entity that GetMe and GetProfile both resolve, by
\* its two identifier fields
MemberDoc(own, secondary) ==
    JObj([included |->
            JArr(<<JObj("$type" :> JStr(MiniProfileType) @@ "firstName" :> JStr("Ann")
                        @@ "entityUrn" :> JStr(own) @@ "objectUrn" :> JStr(secondary))>>)])

\* a /me response whose entity array holds two miniProfile entities, in
\* either order, and whose data.*miniProfile names one of them
MeEntity(id, firstName) ==
    JObj("$type" :> JStr(MiniProfileType) @@ "entityUrn" :> JStr("urn:li:fs_miniProfile:" \o id)
         @@ "firstName" :> JStr(firstName) @@ "publicIdentifier" :> JStr(firstName))

ReferencedResponses ==
    { JObj([data |-> JObj("*miniProfile" :> JStr("urn:li:fs_miniProfile:" \o id)),
            included |-> JArr(a)]) :
        id \in {"ME", "OTHER"},
        a \in {<<MeEntity("ME", "me"), MeEntity("OTHER", "other")>>,
               <<MeEntity("OTHER", "other"), MeEntity("ME", "me")>>,
               <<ParticipantEntity("p1", "Ann", "Lee"), MeEntity("ME", "me")>>} }

IdentityInputs ==
    {JNull, JObj([data |-> JStr("x")]), JObj([included |-> JStr("x")]),
     JObj([included |-> JNull, data |-> JObj([miniProfile |-> JStr("x")])])}
      \cup FlatResponses \cup IndexedResponses \cup ReferencedResponses
      \cup { JObj([included |-> JArr(a)]) : a \in ArraysOver(IdentityPool, MaxItems) }
      \cup { MemberDoc(own, secondary) : own \in URNStrings, secondary \in URNStrings }

DoErrors == {AuthErr, DecodeErr}

InitIdentity ==
    /\ NoRuns
    /\ arg \in IdentityInputs
    /\ ret = None

\* GetMe: Do fails with doErr, or decodes the response arg
CallGetMe ==
    /\ ret = None
    /\ \E doErr \in {NoErr} \cup DoErrors :
          ret' = [op |-> "GetMe", doErr |-> doErr,
                  me |-> IF doErr = NoErr THEN MeOf(arg) ELSE ZeroMe, err |-> doErr]
    /\ UNCHANGED <<arg, execVars>>

\* GetProfile: rejects a blank identifier before any request; otherwise Do
\* fails with doErr, or decodes the response arg
CallGetProfile ==
    /\ ret = None
    /\ \E id \in ProfileIDs, doErr \in {NoErr} \cup DoErrors :
          ret' = IF TrimSpace(id) = <<>>
                 THEN [op |-> "GetProfile", id |-> id, doErr |-> NoErr,
                       profile |-> ZeroProfile,
                       err |-> ArgErr("empty profile identifier")]
                 ELSE [op |-> "GetProfile", id |-> id, doErr |-> doErr,
                       profile |-> IF doErr = NoErr THEN ProfileOf(arg) ELSE ZeroProfile,
                       err |-> doErr]
    /\ UNCHANGED <<arg, execVars>>

NextIdentity ==
    CallGetMe \/ CallGetProfile \/ CallParseConversations \/ CallParseMessages

SpecIdentity == InitIdentity /\ [][NextIdentity]_vars

\* elements of a feed response: four updates (by type tag or by identifier),
\* one of them a reshare with a text in two sibling fields, and elements
\* that are no updates
PostPool ==
    {JObj("$type" :> JStr("com.linkedin.voyager.feed.render.UpdateV2")
          @@ "entityUrn" :> JStr("urn:li:fs_updateV2:1") @@ "updateType" :> JStr("MEMBER_SHARE")
          @@ "publishedAt" :> JNum(17)
          @@ "actor" :> JObj([entityUrn |-> JStr("urn:li:fs_miniProfile:A1")])
          @@ "commentary" :> TextObj("first")),
     JObj([entityUrn |-> JStr("urn:li:activity:111"), shareCommentary |-> TextObj("second")]),
     JObj("$type" :> JStr("com.linkedin.voyager.feed.Update")
          @@ "entityUrn" :> JStr("urn:li:fs_update:3")
          @@ "content" :> JObj([commentary |-> TextObj("own")])
          @@ "resharedUpdate" :> JObj([commentary |-> TextObj("reshared")])),
     JObj("$type" :> JStr("com.linkedin.voyager.feed.Update")
          @@ "commentary" :> TextObj(" ") @@ "shareCommentary" :> TextObj("share")),
     JObj("$type" :> JStr("com.linkedin.voyager.common.Industry")
          @@ "entityUrn" :> JStr("urn:li:fs_industry:4") @@ "commentary" :> TextObj("industry")),
     JObj([entityUrn |-> JStr("urn:li:fs_miniProfile:A1"), firstName |-> JStr("Ann")]),
     JStr("junk"),
     JNull}

ElementArrays ==
    ArraysOver(PostPool, 1)
      \cup {<<JObj([entityUrn |-> JStr("urn:li:activity:111"),
                    shareCommentary |-> TextObj("second")]),
              JObj("$type" :> JStr("com.linkedin.voyager.common.Industry")
                   @@ "entityUrn" :> JStr("urn:li:fs_industry:4")
                   @@ "commentary" :> TextObj("industry"))>>}

PostInputs ==
    {JNull, JObj([elements |-> JStr("x"), included |-> JStr("x")])}
      \cup { JObj([included |-> JArr(inc)]) : inc \in ArraysOver(PostPool, MaxItems) }
      \cup { JObj([elements |-> JArr(el), included |-> JArr(inc)]) :
               el \in ElementArrays, inc \in ArraysOver(PostPool, MaxItems) }

InitPosts ==
    /\ NoRuns
    /\ arg \in PostInputs
    /\ ret = None

\* ListProfilePosts: rejects a blank profile before any request; otherwise
\* Do fails with doErr, or decodes the response arg
CallListProfilePosts ==
    /\ ret = None
    /\ \E profileURN \in {<<" ">>, <<"urn:li:member:1">>}, doErr \in {NoErr} \cup DoErrors :
          IF TrimSpace(profileURN) = <<>>
          THEN ret' = [op |-> "ListProfilePosts", profileURN |-> profileURN, doErr |-> NoErr,
                       posts |-> <<>>, err |-> ArgErr("empty profile identifier")]
          ELSE IF doErr # NoErr
          THEN ret' = [op |-> "ListProfilePosts", profileURN |-> profileURN, doErr |-> doErr,
                       posts |-> <<>>, err |-> doErr]
          ELSE \E posts \in PostsOf(arg) :
                  ret' = [op |-> "ListProfilePosts", profileURN |-> profileURN,
                          doErr |-> NoErr, posts |-> posts, err |-> NoErr]
    /\ UNCHANGED <<arg, execVars>>

SpecPosts == InitPosts /\ [][CallListProfilePosts]_vars

(***************************************************************************)
(* Concurrent calls on one Client (client.go: doInternal, statement by     *)
(* statement). ret holds the Client as the goroutines see it and, for each *)
(* goroutine, where it stands and its local variables u, req and err.      *)
(***************************************************************************)
MaxGoroutines == 2

Goroutines == 1..MaxGoroutines

ZeroURL == [Host |-> <<>>, Path |-> <<>>, RawQuery |-> <<>>]

\* line 136: the credential check reads c.Cookies
CheckCookies(st, g) ==
    IF MissingCookies(st.shared)
    THEN [st EXCEPT !.at[g] = "done", !.err[g] = AuthErr]
    ELSE [st EXCEPT !.at[g] = "checked"]

\* line 140: u := *c.BaseURL copies the URL value
CopyBaseURL(st, g) == [st EXCEPT !.at[g] = "copied", !.u[g] = st.shared.BaseURL]

SetPathInPlace(st, g, path) ==
    LET joined == TrimSuffix(st.u[g].Path, "/") \o <<"/">> \o TrimPrefix(path, "/")
    IN  [st EXCEPT !.at[g] = "path", !.u[g].Path = joined, !.shared.BaseURL.Path = joined]

\* line 141: the path is joined on the copy
SetPath(st, g, path) ==
    [st EXCEPT !.at[g] = "path",
               !.u[g].Path = TrimSuffix(st.u[g].Path, "/") \o <<"/">> \o TrimPrefix(path, "/")]

\* lines 142-144: the raw query is set on the copy
SetRawQuery(st, g, rawQuery) ==
    [st EXCEPT !.at[g] = "query",
               !.u[g].RawQuery = IF rawQuery # <<>> THEN rawQuery ELSE st.u[g].RawQuery]

\* lines 146-167: the body is marshalled and the request made from u
NewRequest(st, g, k) ==
    IF k.body.kind = "unmarshalable"
    THEN [st EXCEPT !.at[g] = "done", !.err[g] = MarshalErr]
    ELSE IF k.method \notin ValidMethods
    THEN [st EXCEPT !.at[g] = "done", !.err[g] = NewRequestErr]
    ELSE [st EXCEPT !.at[g] = "request",
                    !.req[g] = [kind |-> "request", Method |-> k.method,
                                URL |-> URLString(st.u[g]), Body |-> k.body]]

\* lines 169-181: the headers read c.UserAgent and c.Cookies
SetHeaders(st, g, k) ==
    [st EXCEPT !.at[g] = "done",
               !.req[g] = [kind |-> "request", Method |-> st.req[g].Method,
                           URL |-> st.req[g].URL,
                           Header |-> RequestHeaders(st.shared, k.body, k.headerOverrides),
                           Body |-> st.req[g].Body]]

ConcurrentCalls ==
    {[method |-> "GET", path |-> <<"/", "me">>, rawQuery |-> <<>>, body |-> NilBody,
      headerOverrides |-> NoOverrides],
     [method |-> "POST", path |-> <<"graphql">>, rawQuery |-> SampleRawQuery,
      body |-> ValueBody([k |-> <<"v">>]), headerOverrides |-> MessagingOverrides],
     [method |-> "GE T", path |-> <<"/", "me">>, rawQuery |-> <<>>, body |-> NilBody,
      headerOverrides |-> NoOverrides],
     [method |-> "POST", path |-> <<"/", "me">>, rawQuery |-> <<>>,
      body |-> [kind |-> "unmarshalable"], headerOverrides |-> NoOverrides]}

SharedClients ==
    { NewClient([LiAt |-> a, JSessionID |-> <<"a", "j", "a", "x">>], b, "off") :
        a \in LiAts, b \in BaseOpts }

InitConcurrent ==
    /\ NoRuns
    /\ arg \in [client : SharedClients, calls : [Goroutines -> ConcurrentCalls]]
    /\ ret = [shared |-> arg.client,
              at     |-> [g \in Goroutines |-> "start"],
              u      |-> [g \in Goroutines |-> ZeroURL],
              req    |-> [g \in Goroutines |-> NoReq],
              err    |-> [g \in Goroutines |-> NoErr]]

\* one statement of one goroutine
Step(g) ==
    /\ ret.at[g] # "done"
    /\ ret' = CASE ret.at[g] = "start"   -> CheckCookies(ret, g)
                [] ret.at[g] = "checked" -> CopyBaseURL(ret, g)
                [] ret.at[g] = "copied"  -> SetPath(ret, g, arg.calls[g].path)
                [] ret.at[g] = "path"    -> SetRawQuery(ret, g, arg.calls[g].rawQuery)
                [] ret.at[g] = "query"   -> NewRequest(ret, g, arg.calls[g])
                [] ret.at[g] = "request" -> SetHeaders(ret, g, arg.calls[g])
    /\ UNCHANGED <<arg, execVars>>

NextConcurrent == \E g \in Goroutines : Step(g)

SpecConcurrent == InitConcurrent /\ [][NextConcurrent]_vars

(***************************************************************************)
(* Properties of the request executor.                                     *)
(***************************************************************************)
Entered == call # NoCall /\ call.pre = NoErr
Is2xx(status) == status >= 200 /\ status < 300
Answered(r) == pc[r] = "done" /\ resp[r] # None /\ resp[r].kind = "response"

\* C1: whichever entry point (Do, DoRaw, DoMessaging) is called, a client
\* whose li_at or JSESSIONID is empty gets the authentication error and no
\* request is handed to the transport.
C1_MissingCookiesRejected ==
    \A r \in Runs :
        (Entered /\ (client[r].Cookies.LiAt = <<>> \/ client[r].Cookies.JSessionID = <<>>))
            => /\ err[r] = AuthErr
               /\ req[r] = NoReq
               /\ sent[r] = 0
               /\ pc[r] = "done"

C1_Witness ==
    \E r \in Runs :
        /\ Entered /\ call.entry = "DoMessaging"
        /\ client[r].Cookies.LiAt # <<>> /\ client[r].Cookies.JSessionID = <<>>
        /\ pc[r] = "done" /\ err[r] = AuthErr /\ sent[r] = 0

RateLimited(e) == e.kind = "http" /\ e.StatusCode = 429

\* C2: a 429 response yields the rate-limited error (status code 429), a 403
\* response yields a status error that is not the rate-limited one, and both
\* carry the method of the call and the URL of the request.
C2_StatusClassification ==
    \A r \in Runs :
        (Answered(r) /\ resp[r].status \in {403, 429})
            => /\ err[r].kind = "http"
               /\ RateLimited(err[r]) <=> (resp[r].status = 429)
               /\ err[r].Method = call.method
               /\ err[r].URL = req[r].URL
               /\ err[r].URL # <<>>

C2_Witness ==
    \E r \in Runs :
        /\ Answered(r) /\ resp[r].status = 429
        /\ RateLimited(err[r]) /\ err[r].URL = req[r].URL /\ err[r].Method = "POST"

\* C3: a call hands at most one request to the transport, and once the
\* transport has answered (a 429, any other status, a transport error or a
\* body that does not decode) the call has returned.
C3_AtMostOneRequest ==
    \A r \in Runs :
        /\ sent[r] <= 1
        /\ resp[r] # None => (pc[r] = "done" /\ sent[r] = 1)

C3_Witness ==
    \E r \in Runs :
        /\ Answered(r) /\ resp[r].status = 429 /\ sent[r] = 1 /\ RateLimited(err[r])

Decodable(body) == body.text = "json" /\ body.doc.t = "obj"

\* C4: after a 2xx response the output target holds something only if it is
\* non-nil and the body read is non-empty; an empty body gives success and
\* leaves the target as it was; a non-empty body that is a JSON document the
\* target can hold is decoded into it; any other non-empty body gives the
\* decode error, which is no status error.
C4_DecodeOn2xx ==
    \A r \in Runs :
        (Answered(r) /\ Is2xx(resp[r].status))
            => LET body == resp[r].read
               IN  /\ (call.outNil \/ body.len = 0) => (err[r] = NoErr /\ out[r] = JNull)
                   /\ (~call.outNil /\ body.len > 0 /\ Decodable(body))
                        => (err[r] = NoErr /\ out[r] = body.doc)
                   /\ (~call.outNil /\ body.len > 0 /\ ~Decodable(body))
                        => (err[r].kind = "decode" /\ err[r].kind # "http" /\ out[r] = JNull)

C4_Witness ==
    \E r \in Runs :
        /\ Answered(r) /\ Is2xx(resp[r].status) /\ ~call.outNil
        /\ resp[r].read.len = 0 /\ resp[r].wire.len > 0
        /\ err[r] = NoErr /\ out[r] = JNull

\* C7: the request SendMessage issues to the createMessage endpoint carries
\* content-type text/plain;charset=UTF-8 and accept application/json.
C7_SendMessageHeaders ==
    \A r \in Runs :
        (call # NoCall /\ call.api = "SendMessage" /\ req[r] # NoReq)
            => /\ "content-type" \in DOMAIN req[r].Header
               /\ req[r].Header["content-type"] = <<"text/plain;charset=UTF-8">>
               /\ req[r].Header["accept"] = <<"application/json">>

ZeroToken == RunesToString([i \in 1..TokenLen |-> 0])

C6_DebugOutputIgnoresCookies ==
    /\ \A r \in Runs : ~client[r].Debug => debugOut[r] = <<>>
    /\ \A r1, r2 \in Runs : debugOut[r1] = debugOut[r2]

\* C6, amended: diagnostic output is written only when the debug flag is
\* set; a call with a credential missing writes none; and two calls that
\* both have li_at and JSESSIONID and differ only in their values write the
\* same diagnostic output.
C6_DebugOutputIgnoresCookieValues ==
    /\ \A r \in Runs : ~client[r].Debug => debugOut[r] = <<>>
    /\ \A r \in Runs : MissingCookies(client[r]) => debugOut[r] = <<>>
    /\ \A r1, r2 \in Runs :
          (~MissingCookies(client[r1]) /\ ~MissingCookies(client[r2]))
              => debugOut[r1] = debugOut[r2]

C6_Witness ==
    /\ Runs = {1, 2}
    /\ client[1].Cookies.LiAt # client[2].Cookies.LiAt
    /\ client[1].Cookies.JSessionID # client[2].Cookies.JSessionID
    /\ ~MissingCookies(client[1]) /\ ~MissingCookies(client[2])
    /\ Answered(1) /\ Answered(2)
    /\ Len(debugOut[1]) = 2 /\ debugOut[1] = debugOut[2]

(***************************************************************************)
(* Properties of the string functions.                                     *)
(***************************************************************************)
AlreadyQuoted(v) == HasPrefix(v, QUOTE) /\ HasSuffix(v, QUOTE)

RECURSIVE Unquoted(_)
Unquoted(v) ==
    IF v # <<>> /\ v[1] = QUOTE THEN Unquoted(Tail(v))
    ELSE IF v # <<>> /\ v[Len(v)] = QUOTE THEN Unquoted(SubSeq(v, 1, Len(v) - 1))
    ELSE v

\* C5: for every JSESSIONID value (and li_at, both present as the executor
\* requires), the csrf-token header is the value without its surrounding
\* quote characters, and the cookie header is li_at=<li_at>; JSESSIONID=<v>
\* with <v> the value itself if it was already quoted and the value wrapped
\* in double quotes if it was not.
C5_AuthHeaders ==
    (ret # None /\ arg.LiAt # <<>> /\ arg.JSessionID # <<>>)
        => /\ ret.csrf = Unquoted(arg.JSessionID)
           /\ ret.cookie = <<"li_at=">> \o arg.LiAt \o <<"; ", "JSESSIONID=">>
                             \o (IF AlreadyQuoted(arg.JSessionID) THEN arg.JSessionID
                                 ELSE <<QUOTE>> \o arg.JSessionID \o <<QUOTE>>)

Latin1Decode(token) ==
    LET cps == CodePoints(token)
    IN  [i \in 1..Len(cps) |-> IF cps[i] < 256 THEN cps[i] ELSE -1]

\* C8: for 16 bytes read from the random source, the token holds exactly 16
\* code points, the i-th being U+00b for the i-th byte b, and mapping each
\* code point back to the byte of the same value gives the 16 bytes again.
C8_TokenRoundTrip ==
    (ret # None /\ ~arg.fail)
        => /\ ~ret.failed
           /\ Len(CodePoints(ret.id)) = TokenLen
           /\ \A i \in 1..TokenLen : CodePoints(ret.id)[i] = arg.bytes[i]
           /\ Latin1Decode(ret.id) = arg.bytes

C8_Witness ==
    /\ ret # None /\ ~arg.fail
    /\ arg.bytes[1] = 255 /\ arg.bytes[2] = 0 /\ arg.bytes[3] = 1
    /\ Len(ret.id) > TokenLen
    /\ Latin1Decode(ret.id) = arg.bytes

RECURSIVE URNExpected(_)
URNExpected(urn) ==
    IF urn = <<>> THEN <<>>
    ELSE (CASE Head(urn) = ":" -> <<"%", "3", "A">>
            [] Head(urn) = "(" -> <<"%", "2", "8">>
            [] Head(urn) = ")" -> <<"%", "2", "9">>
            [] Head(urn) = "," -> <<"%", "2", "C">>
            [] OTHER -> <<Head(urn)>>) \o URNExpected(Tail(urn))

\* C10: encodeURNValue writes %3A for ':', %28 for '(', %29 for ')' and %2C
\* for ',', keeps every other character, and so its output holds none of
\* the four characters.
C10_EncodeURNValue ==
    ret # None
        => /\ ret.encoded = URNExpected(arg)
           /\ \A i \in 1..Len(ret.encoded) : ret.encoded[i] \notin {":", "(", ")", ","}

C10_Witness ==
    /\ ret # None
    /\ arg = <<":", "(", ",", ")">>
    /\ ret.encoded = <<"%", "3", "A", "%", "2", "8", "%", "2", "C", "%", "2", "9">>

(***************************************************************************)
(* Properties of the messaging operations.                                 *)
(***************************************************************************)
RECURSIVE QueryOf(_)
QueryOf(url) ==
    IF url = <<>> THEN <<>>
    ELSE IF Head(url) = "?" THEN Tail(url)
    ELSE QueryOf(Tail(url))

HasDoubleEncoding(q) ==
    \E i \in 1..(Len(q) - 2) : q[i] = "%" /\ q[i + 1] = "2" /\ q[i + 2] = "5"

\* C11: the raw query given to DoRaw is the query of the request URL,
\* unchanged; the query ListConversations and GetMessages send is the
\* template with its parentheses, commas and colons literal and with the
\* identifier's ':', '(', ')' and ',' written %3A, %28, %29 and %2C, and it
\* holds no %25 unless the identifier itself holds a '%'.
C11_RawQueryVerbatim ==
    \A r \in Runs :
        (Entered /\ call.entry = "DoRaw" /\ call.query # <<>> /\ req[r] # NoReq)
            => LET q == QueryOf(req[r].URL)
               IN  /\ q = call.query
                   /\ call.api = "ListConversations"
                        => /\ q = <<"variables", "=", "(", "query", ":", "(",
                                    "predicateUnions", ":", "List", "(", "(",
                                    "conversationCategoryPredicate", ":", "(",
                                    "category", ":", "INBOX", ")", ")", ")", ")", ",",
                                    "count", ":",
                                    IF call.args.count <= 0 THEN "20"
                                    ELSE ToString(call.args.count),
                                    ",", "mailboxUrn", ":">>
                                    \o URNExpected(call.args.profileURN)
                                    \o <<")", "&", "queryId", "=">>
                                    \o conversationsQueryID(call.args.li)
                           /\ "%" \notin Range(call.args.profileURN) => ~HasDoubleEncoding(q)
                   /\ call.api = "GetMessages"
                        => /\ q = <<"variables", "=", "(", "conversationUrn", ":">>
                                    \o URNExpected(call.args.conversationURN)
                                    \o <<")", "&", "queryId", "=">>
                                    \o messagesQueryID(call.args.li)
                           /\ "%" \notin Range(call.args.conversationURN)
                                => ~HasDoubleEncoding(q)

C11_Witness ==
    \E r \in Runs :
        /\ Entered /\ call.api = "GetMessages" /\ req[r] # NoReq
        /\ "(" \in Range(call.args.conversationURN)
        /\ QueryOf(req[r].URL) =
             <<"variables", "=", "(", "conversationUrn", ":",
               "urn", "%", "3", "A", "li", "%", "3", "A", "msg_conversation", "%", "3", "A",
               "%", "2", "8", "urn", "%", "3", "A", "li", "%", "3", "A", "fsd_profile",
               "%", "3", "A", "AAA", "%", "2", "C", "2-abc", "%", "2", "9",
               ")", "&", "queryId", "=",
               "messengerMessages.5846eeb71c981f11e0134cb6626cc314">>

(***************************************************************************)
(* Properties of the search query.                                         *)
(***************************************************************************)
\* C12: wherever the keywords hold a space, the keywords value of the
\* search query holds %20 in its place (the value is the encoding of what
\* precedes the space, then %20, then the encoding of what follows), and
\* the query holds no '+' and no space.
C12_SpacesAsPercent20 ==
    (ret # None /\ ret.err = NoErr)
        => /\ \A i \in 1..Len(arg.keywords) :
                 arg.keywords[i] = " "
                    => ret.escaped = escapedKW(SubSeq(arg.keywords, 1, i - 1))
                                       \o <<"%", "2", "0">>
                                       \o escapedKW(SubSeq(arg.keywords, i + 1,
                                                           Len(arg.keywords)))
           /\ "+" \notin Range(ret.rawQuery)
           /\ " " \notin Range(ret.rawQuery)

C12_Witness ==
    /\ ret # None /\ ret.err = NoErr
    /\ arg.keywords = <<"a", " ", "a">>
    /\ ret.escaped = <<"a", "%", "2", "0", "a">>

(***************************************************************************)
(* Properties of the response parsers. The entities of the inputs have     *)
(* different identifiers.                                                  *)
(***************************************************************************)
URNOf(e) == IF e.t = "obj" THEN getString(e, <<"entityUrn">>) ELSE ""
StrField(e, key) == IF key \in DOMAIN e.o /\ e.o[key].t = "str" THEN e.o[key].s ELSE ""
ArrField(e, key) == IF key \in DOMAIN e.o /\ e.o[key].t = "arr" THEN e.o[key].a ELSE <<>>
Present(inc, typ, urn) == \E i \in EntitiesOf(inc, typ) : URNOf(inc[i]) = urn
EntityWith(inc, typ, urn) == inc[CHOOSE i \in EntitiesOf(inc, typ) : URNOf(inc[i]) = urn]
OneOf(e, prefixed, plain) == ~(prefixed \in DOMAIN e.o /\ plain \in DOMAIN e.o)
FirstAndLast(e) ==
    LET first == getString(e, <<"participantType", "member", "firstName", "text">>)
        last == getString(e, <<"participantType", "member", "lastName", "text">>)
    IN  IF first = "" THEN (IF last = "" THEN <<>> ELSE <<last>>)
        ELSE IF last = "" THEN <<first>>
        ELSE <<first, " ", last>>
Conversations(inc) == EntitiesOf(inc, ConversationType)
Parsed(op) == ret # None /\ ret.op = op

\* c is the conversation of entity e as C13 describes it, for an entity
\* that uses one convention of field names per relation
ConversationOf(c, e, inc) ==
    /\ c.EntityURN = URNOf(e)
    /\ OneOf(e, "*conversationParticipants", "conversationParticipants")
         => LET refs == ArrField(e, "*conversationParticipants")
                          \o ArrField(e, "conversationParticipants")
                want == SelectSeq(refs, LAMBDA r : r.t = "str"
                                           /\ Present(inc, ParticipantType, r.s))
            IN  /\ Len(c.Participants) = Len(want)
                /\ \A j \in 1..Len(want) :
                      /\ c.Participants[j].EntityURN = want[j].s
                      /\ c.Participants[j]
                           = parseParticipant(EntityWith(inc, ParticipantType, want[j].s))
    /\ OneOf(e, "*lastMessage", "lastMessage")
         => LET ref == IF "*lastMessage" \in DOMAIN e.o THEN StrField(e, "*lastMessage")
                       ELSE StrField(e, "lastMessage")
            IN  (ref # "" /\ Present(inc, MessageType, ref))
                  => /\ c.LastMessage # <<>>
                     /\ c.LastMessage[1].EntityURN = ref
                     /\ LET msg == EntityWith(inc, MessageType, ref)
                            sender == IF "*sender" \in DOMAIN msg.o
                                      THEN StrField(msg, "*sender")
                                      ELSE StrField(msg, "sender")
                        IN  (OneOf(msg, "*sender", "sender")
                             /\ Present(inc, ParticipantType, sender))
                              => c.LastMessage[1].SenderName
                                   = FirstAndLast(EntityWith(inc, ParticipantType, sender))

\* C13: ParseConversations returns one conversation for each entity of the
\* Conversation type and no other; the participants of each are the
\* participant entities its references name that are in the response, in
\* the order of the references; its last message is not nil when the
\* message entity it references is in the response, and the sender name of
\* that message is the first and last name of the participant entity the
\* message's sender reference names.
C13_ConversationsResolved ==
    Parsed("ParseConversations")
        => LET inc == Included(arg)
           IN  /\ Len(ret.convos) = Cardinality(Conversations(inc))
               /\ \E f \in [1..Len(ret.convos) -> Conversations(inc)] :
                     /\ \A j, k \in 1..Len(ret.convos) : f[j] = f[k] => j = k
                     /\ \A k \in 1..Len(ret.convos) :
                           ConversationOf(ret.convos[k], inc[f[k]], inc)

C13_Witness ==
    /\ Parsed("ParseConversations")
    /\ Included(arg) = Fixture
    /\ Len(ret.convos) = 4
    /\ \E k \in 1..4 :
          /\ ret.convos[k].EntityURN = "c2"
          /\ Len(ret.convos[k].Participants) = 2
          /\ ret.convos[k].Participants[1].EntityURN = "p2"
          /\ ret.convos[k].LastMessage # <<>>
          /\ ret.convos[k].LastMessage[1].SenderName = <<"Bob">>
    /\ \E k \in 1..4 :
          /\ ret.convos[k].EntityURN = "c1"
          /\ ret.convos[k].LastMessage[1].SenderName = <<"Ann", " ", "Lee">>

Reorderings(inc) ==
    IF Len(inc) <= MaxEntities
    THEN { [i \in 1..Len(inc) |-> inc[f[i]]] : f \in Permutations(1..Len(inc)) }
    ELSE {inc, Reverse(inc)}

Response(inc) == JObj([included |-> JArr(inc)])

\* C14: in whatever order the entities of the array come (every order of
\* the arrays up to MaxEntities entities, the reverse order of longer
\* ones), ParseConversations resolves the same conversations, each with the
\* same participants, the same last message and the same sender name, and
\* ParseMessages the same messages with the same sender names.
C14_OrderIndependent ==
    /\ Parsed("ParseConversations")
         => \A other \in Reorderings(Included(arg)) :
               \A convos \in ParseConversations(Response(other)) :
                  /\ Len(convos) = Len(ret.convos)
                  /\ Range(convos) = Range(ret.convos)
    /\ Parsed("ParseMessages")
         => \A other \in Reorderings(Included(arg)) :
               \A msgs \in ParseMessages(Response(other)) :
                  /\ Len(msgs) = Len(ret.msgs)
                  /\ Range(msgs) = Range(ret.msgs)

C14_Witness ==
    /\ Parsed("ParseConversations")
    /\ Len(Included(arg)) = 3
    /\ URNOf(Included(arg)[1]) = "c1"
    /\ URNOf(Included(arg)[2]) = "m1"
    /\ URNOf(Included(arg)[3]) = "p1"
    /\ Len(ret.convos) = 1
    /\ Len(ret.convos[1].Participants) = 1
    /\ ret.convos[1].LastMessage # <<>>
    /\ ret.convos[1].LastMessage[1].SenderName = <<"Ann", " ", "Lee">>

\* the references of refs that name a participant entity of inc
NamedParticipants(refs, inc) ==
    LET named == SelectSeq(refs, LAMBDA r : r.t = "str" /\ Present(inc, ParticipantType, r.s))
    IN  [j \in 1..Len(named) |-> named[j].s]

NamedMessage(ref, inc) == IF Present(inc, MessageType, ref) THEN ref ELSE ""

\* C15: per relation the '*'-prefixed field comes first: the participants
\* are those the prefixed array yields and those of the plain array only
\* when it yields none; the last message is the one the prefixed reference
\* yields and the one of the plain reference only when it yields none; the
\* sender reference is the prefixed string and the plain one only when the
\* prefixed one is empty.
C15_PrefixedFirst ==
    /\ Parsed("ParseConversations")
         => \A k \in 1..Len(ret.convos) :
               LET inc == Included(arg)
                   c == ret.convos[k]
                   e == EntityWith(inc, ConversationType, c.EntityURN)
                   prefixed == NamedParticipants(ArrField(e, "*conversationParticipants"), inc)
                   plain == NamedParticipants(ArrField(e, "conversationParticipants"), inc)
                   lastPrefixed == NamedMessage(StrField(e, "*lastMessage"), inc)
                   lastPlain == NamedMessage(StrField(e, "lastMessage"), inc)
               IN  /\ [j \in 1..Len(c.Participants) |-> c.Participants[j].EntityURN]
                        = (IF prefixed # <<>> THEN prefixed ELSE plain)
                   /\ [j \in 1..Len(c.LastMessage) |-> c.LastMessage[j].EntityURN]
                        = (IF lastPrefixed # "" THEN <<lastPrefixed>>
                           ELSE IF lastPlain # "" THEN <<lastPlain>>
                           ELSE <<>>)
    /\ Parsed("ParseMessages")
         => \A k \in 1..Len(ret.msgs) :
               ret.msgs[k].EntityURN # ""
                 => LET e == EntityWith(Included(arg), MessageType, ret.msgs[k].EntityURN)
                    IN  ret.msgs[k].SenderURN
                          = (IF StrField(e, "*sender") # "" THEN StrField(e, "*sender")
                             ELSE StrField(e, "sender"))

C15_Witness ==
    /\ Parsed("ParseConversations")
    /\ Included(arg) = Fixture
    /\ \E k \in 1..Len(ret.convos) :
          /\ ret.convos[k].EntityURN = "c3"
          /\ Len(ret.convos[k].Participants) = 1
          /\ ret.convos[k].Participants[1].EntityURN = "p2"
          /\ ret.convos[k].LastMessage[1].EntityURN = "m3"
          /\ ret.convos[k].LastMessage[1].SenderURN = "p2"

Injective(f) == \A j, k \in DOMAIN f : f[j] = f[k] => j = k

\* C16: the list ParseConversations returns holds the resolved
\* conversations, each once, and the delivery timestamp of the last message
\* (zero for a conversation without resolved last message) never increases
\* along it.
C16_ConversationsNewestFirst ==
    Parsed("ParseConversations")
        => LET resolved == resolveConversations(Included(arg))
               at(c) == IF c.LastMessage = <<>> THEN 0 ELSE c.LastMessage[1].DeliveredAt
           IN  /\ Len(ret.convos) = Len(resolved)
               /\ \E f \in [1..Len(resolved) -> 1..Len(resolved)] :
                     /\ Injective(f)
                     /\ \A k \in 1..Len(resolved) : ret.convos[k] = resolved[f[k]]
               /\ \A j, k \in 1..Len(ret.convos) :
                     j < k => at(ret.convos[j]) >= at(ret.convos[k])

C16_Witness ==
    /\ Parsed("ParseConversations")
    /\ Included(arg) = Reverse(Fixture)
    /\ Len(ret.convos) = 4
    /\ ret.convos[1].LastMessage[1].DeliveredAt = 100
    /\ ret.convos[2].LastMessage[1].DeliveredAt = 100
    /\ ret.convos[3].EntityURN = "c3" /\ ret.convos[3].LastMessage[1].DeliveredAt = 50
    /\ ret.convos[4].EntityURN = "c4" /\ ret.convos[4].LastMessage = <<>>

\* C17: the list ParseMessages returns holds one message for every entity
\* of the Message type and no other, and the delivery timestamp never
\* decreases along it.
C17_MessagesOldestFirst ==
    Parsed("ParseMessages")
        => LET inc == Included(arg)
               entities == EntitiesOf(inc, MessageType)
           IN  /\ Len(ret.msgs) = Cardinality(entities)
               /\ \E f \in [1..Len(ret.msgs) -> entities] :
                     /\ Injective(f)
                     /\ \A k \in 1..Len(ret.msgs) :
                           /\ ret.msgs[k].EntityURN = URNOf(inc[f[k]])
                           /\ ret.msgs[k].BodyText = getString(inc[f[k]], <<"body", "text">>)
               /\ \A j, k \in 1..Len(ret.msgs) :
                     j < k => ret.msgs[j].DeliveredAt <= ret.msgs[k].DeliveredAt

C17_Witness ==
    /\ Parsed("ParseMessages")
    /\ Included(arg) = Fixture
    /\ Len(ret.msgs) = 3
    /\ ret.msgs[1].EntityURN = "m3" /\ ret.msgs[1].DeliveredAt = 50
    /\ ret.msgs[2].DeliveredAt = 100 /\ ret.msgs[3].DeliveredAt = 100

PositionIn(list, x) == CHOOSE i \in 1..Len(list) : list[i] = x

\* C18: conversations with equal timestamps come in the returned list in
\* the order they have in the entity array, and so do messages with equal
\* timestamps.
C18_StableSort ==
    /\ Parsed("ParseConversations")
         => LET resolved == resolveConversations(Included(arg))
            IN  \A j, k \in 1..Len(ret.convos) :
                   (j < k /\ ConversationTime(ret.convos[j]) = ConversationTime(ret.convos[k]))
                      => PositionIn(resolved, ret.convos[j]) < PositionIn(resolved, ret.convos[k])
    /\ Parsed("ParseMessages")
         => LET collected == collectMessages(Included(arg))
            IN  \A j, k \in 1..Len(ret.msgs) :
                   (j < k /\ ret.msgs[j].DeliveredAt = ret.msgs[k].DeliveredAt)
                      => PositionIn(collected, ret.msgs[j]) < PositionIn(collected, ret.msgs[k])

(***************************************************************************)
(* Properties of the identity resolution.                                  *)
(***************************************************************************)
\* an element of the entity array that GetProfile takes for the profile
Resolvable(x) ==
    /\ x.t = "obj"
    /\ \/ Contains(StrField(x, "$type"), "Profile")
            /\ Contains(StrField(x, "entityUrn"), "fsd_profile")
       \/ "firstName" \in DOMAIN x.o
NoProfileEntity(raw) ==
    \A i \in 1..Len(Included(raw)) : ~Resolvable(Included(raw)[i])
Responded(op) == Parsed(op) /\ ret.doErr = NoErr /\ ret.err.kind # "argument"

\* C19: GetProfile on a successful response whose entity array is absent,
\* empty or holds no element it takes for the profile returns the zero
\* Profile and a nil error; ParseConversations and ParseMessages return an
\* empty list when no element has their type.
C19_SoftMiss ==
    /\ (Responded("GetProfile") /\ NoProfileEntity(arg))
          => (ret.profile = ZeroProfile /\ ret.err = NoErr)
    /\ (Parsed("ParseConversations") /\ EntitiesOf(Included(arg), ConversationType) = {})
          => ret.convos = <<>>
    /\ (Parsed("ParseMessages") /\ EntitiesOf(Included(arg), MessageType) = {})
          => ret.msgs = <<>>

C19_Witness ==
    /\ Responded("GetProfile")
    /\ NoProfileEntity(arg)
    /\ Len(Included(arg)) = 2
    /\ \E i \in 1..2 : Included(arg)[i].t = "obj" /\ "headline" \in DOMAIN Included(arg)[i].o
    /\ ret.profile = ZeroProfile

FlatForms(mini) == {JObj([data |-> JObj([miniProfile |-> mini])]), JObj([miniProfile |-> mini])}
IndexedForms(mini) ==
    {JObj([included |-> JArr(<<AsEntity(mini)>>)])}
      \cup (IF IsMiniProfile(mini) THEN {JObj([included |-> JArr(<<mini>>)])} ELSE {})

\* C20: GetMe on a response that holds the miniProfile object under data or
\* at the top level, without an entity array, returns the Me value it
\* returns for a response that holds the same fields as a miniProfile
\* entity of the entity array.
C20_FlatAsIndexed ==
    Responded("GetMe") =>
        \A mini \in MiniProfiles :
            arg \in FlatForms(mini) => \A indexed \in IndexedForms(mini) : ret.me = MeOf(indexed)

C20_Witness ==
    /\ Responded("GetMe")
    /\ \E mini \in MiniProfiles : arg \in FlatForms(mini) /\ getString(mini, <<"occupation">>) = "Tester"
    /\ ret.me.PublicIdentifier = "flat-user"
    /\ ret.me.MemberID = "FLAT001"
    /\ ret.me.MemberURN = "urn:li:member:FLAT001"

\* s without its leading and trailing white space
Strip(s) ==
    LET solid == { i \in 1..Len(s) : ~IsSpace(SubSeq(s, i, i)) }
    IN  IF solid = {} THEN ""
        ELSE SubSeq(s, CHOOSE i \in solid : \A j \in solid : i <= j,
                       CHOOSE i \in solid : \A j \in solid : j <= i)
\* the colon-free text that ends the stripped identifier after a colon
LastSegment(s) ==
    LET t == Strip(s)
        ends == { x \in {SubSeq(t, i, Len(t)) : i \in 2..(Len(t) + 1)} :
                    ~Contains(x, ":") /\ SubSeq(t, Len(t) - Len(x), Len(t)) = ":" \o x }
    IN  IF ends = {} THEN "" ELSE CHOOSE x \in ends : TRUE
Resolved == IF Parsed("GetMe") THEN ret.me ELSE ret.profile

\* C21: the MemberID of a resolved Me or Profile is the last segment of the
\* entity's own identifier (white space around it aside) or, when that is
\* empty, of its objectUrn; an identifier that is empty, has no colon or
\* ends in a colon gives the empty segment; MemberURN is "urn:li:member:"
\* followed by MemberID when MemberID is not empty, and empty otherwise.
C21_MemberID ==
    (Responded("GetMe") \/ Responded("GetProfile")) =>
        /\ LastSegment(Resolved.MiniProfileEntityURN) # ""
              => Resolved.MemberID = LastSegment(Resolved.MiniProfileEntityURN)
        /\ \A own, secondary \in URNStrings :
              arg = MemberDoc(own, secondary) =>
                 /\ Resolved.MiniProfileEntityURN = own
                 /\ Resolved.MemberID = IF LastSegment(own) # "" THEN LastSegment(own)
                                        ELSE LastSegment(secondary)
                 /\ (own \in {"", "a", "a:"} /\ secondary \in {"", "a", "a:"})
                       => Resolved.MemberID = ""
        /\ Resolved.MemberURN = IF Resolved.MemberID # ""
                                THEN "urn:li:member:" \o Resolved.MemberID ELSE ""

C21_Witness ==
    /\ Responded("GetProfile")
    /\ arg = MemberDoc("a:", ":a")
    /\ ret.profile.MemberID = "a"
    /\ ret.profile.MemberURN = "urn:li:member:a"

(***************************************************************************)
(* Properties of the feed updates.                                         *)
(***************************************************************************)
ArrayAt(raw, key) == IF raw.t = "obj" THEN ArrField(raw, key) ELSE <<>>
Marked(x) ==
    /\ x.t = "obj"
    /\ \/ Contains(StrField(x, "$type"), "Update")
       \/ Contains(StrField(x, "entityUrn"), "urn:li:fs_update")
       \/ Contains(StrField(x, "entityUrn"), "activity")
\* the elements of list that are JSON objects and satisfy keep, in order
Kept(list, keep(_)) ==
    LET order == SelectIndexes(Len(list), { i \in 1..Len(list) : list[i].t = "obj" /\ keep(list[i]) })
    IN  [k \in 1..Len(order) |-> list[order[k]]]
AnyObject(x) == TRUE
SameItem(post, x) ==
    /\ post.EntityURN = StrField(x, "entityUrn")
    /\ post.UpdateType = StrField(x, "updateType")
    /\ post.PublishedAt = getInt64(x, "publishedAt")

\* C22: the FeedUpdates of ListProfilePosts are, in order, the objects of the
\* top-level elements array when that array is not empty, and otherwise the
\* objects of the entity array whose $type or entityUrn marks an update; an
\* entity without such a mark gives no FeedUpdate.
C22_ElementsThenIncluded ==
    Responded("ListProfilePosts") =>
        LET elements == ArrayAt(arg, "elements")
            source == IF Len(elements) > 0 THEN Kept(elements, AnyObject)
                      ELSE Kept(ArrayAt(arg, "included"), Marked)
        IN  /\ Len(ret.posts) = Len(source)
            /\ \A k \in 1..Len(source) : SameItem(ret.posts[k], source[k])

C22_Witness ==
    /\ Responded("ListProfilePosts")
    /\ ArrayAt(arg, "elements") = <<>>
    /\ Len(ArrayAt(arg, "included")) = 2
    /\ Marked(ArrayAt(arg, "included")[2])
    /\ ArrayAt(arg, "included")[1].t = "obj"
    /\ StrField(ArrayAt(arg, "included")[1], "$type") = "com.linkedin.voyager.common.Industry"
    /\ Len(ret.posts) = 1
    /\ ret.posts[1].Commentary = "first"

\* C23: ListProfilePosts has one result for a response: whatever it returned,
\* it returns the same list, commentary texts included, for the same document.
C23_CommentaryDeterministic ==
    Responded("ListProfilePosts") => \A posts \in PostsOf(arg) : posts = ret.posts

(***************************************************************************)
(* Properties of the argument checks.                                      *)
(***************************************************************************)
RequiredArgument(k) ==
    CASE k.api = "GetProfile" -> k.args.publicIdentifierOrURN
      [] k.api \in {"SearchPeople", "SearchJobs"} -> k.args.keywords
      [] k.api \in {"ListProfilePosts", "ListConversations"} -> k.args.profileURN
      [] k.api = "GetMessages" -> k.args.conversationURN
AllSpace(s) == \A i \in 1..Len(s) : IsSpace(s[i])
Checked ==
    {"GetProfile", "SearchPeople", "SearchJobs", "ListProfilePosts", "ListConversations",
     "GetMessages"}

\* C24: a call of GetProfile, SearchPeople, SearchJobs, ListProfilePosts,
\* ListConversations or GetMessages whose required argument is empty or all
\* white space ends with an argument error on every client, and no request
\* is built or sent and no response is read for it.
C24_EmptyArgumentRejected ==
    (call.api \in Checked /\ AllSpace(RequiredArgument(call))) =>
        \A r \in Runs :
            /\ pc[r] = "done"
            /\ err[r].kind = "argument"
            /\ req[r] = NoReq
            /\ sent[r] = 0
            /\ resp[r] = None

C24_Witness ==
    /\ call.api = "SearchJobs"
    /\ call.args.keywords = <<" ">>
    /\ \A r \in Runs : pc[r] = "done" /\ err[r] = ArgErr("empty query") /\ sent[r] = 0

(***************************************************************************)
(* Properties of the search operations.                                    *)
(***************************************************************************)
\* C27: SearchPeople and SearchJobs return at most count items when count
\* is positive, and at most 10 otherwise.
C27_AtMostCountItems ==
    call.api \in {"SearchPeople", "SearchJobs"} =>
        \A r \in Runs :
            Len(result[r].items) <= (IF call.args.count > 0 THEN call.args.count ELSE 10)

(***************************************************************************)
(* Properties of cancellation.                                             *)
(***************************************************************************)
ContextEnded(r) ==
    /\ resp[r] # None
    /\ \/ resp[r].kind = "error" /\ resp[r].cause = "canceled"
       \/ resp[r].kind = "interrupted"

\* C26: a call whose context ended while its request was in flight, before
\* the response arrived or while its body was read, has returned an error
\* that wraps the context's error.
C26_CancellationReported ==
    \A r \in Runs :
        ContextEnded(r) =>
            /\ pc[r] = "done"
            /\ err[r].kind = "transport"
            /\ err[r].cause = resp[r].cause

(***************************************************************************)
(* Properties of concurrent calls.                                         *)
(***************************************************************************)
Alone(k) == doInternalSend(arg.client, k.method, k.path, k.rawQuery, k.body, k.headerOverrides)

\* C25: while goroutines run calls on one Client in any interleaving, the
\* Client keeps its base URL, cookies and user agent, and every call that has
\* built its request, or failed before, has the URL, the headers and the
\* error of the same call run alone.
C25_CallsIndependent ==
    /\ ret.shared = arg.client
    /\ \A g \in Goroutines :
          ret.at[g] = "done" =>
             /\ ret.err[g] = Alone(arg.calls[g]).err
             /\ ret.req[g] = Alone(arg.calls[g]).req

C25_Witness ==
    /\ \A g \in Goroutines : ret.at[g] = "done" /\ ret.err[g] = NoErr
    /\ ret.req[1].URL # ret.req[2].URL
    /\ ret.req[1].Header["accept"] # ret.req[2].Header["accept"]

(***************************************************************************)
(* Properties of the query string as its receiver reads it.                *)
(***************************************************************************)
\* q up to the first token tok, and what follows that token
UpTo(q, tok) ==
    LET at == { i \in 1..Len(q) : q[i] = tok }
    IN  IF at = {} THEN q ELSE SubSeq(q, 1, (CHOOSE i \in at : \A j \in at : i <= j) - 1)
After(q, tok) ==
    LET at == { i \in 1..Len(q) : q[i] = tok }
    IN  IF at = {} THEN <<>> ELSE SubSeq(q, (CHOOSE i \in at : \A j \in at : i <= j) + 1, Len(q))
RECURSIVE Parameters(_)
Parameters(q) ==
    IF "&" \notin Range(q) THEN <<q>> ELSE <<UpTo(q, "&")>> \o Parameters(After(q, "&"))
\* the query of a URL ends where its fragment starts
SentQuery(url) == UpTo(QueryOf(url), "#")

\* C28: the query ListConversations and GetMessages send has two parameters,
\* variables and then queryId, and queryId has the configured or the default
\* query id as its value, whatever the identifier holds.
C28_TwoParameters ==
    \A r \in Runs :
        (Entered /\ call.api \in {"ListConversations", "GetMessages"} /\ req[r] # NoReq)
            => LET ps == Parameters(SentQuery(req[r].URL))
               IN  /\ Len(ps) = 2
                   /\ UpTo(ps[1], "=") = <<"variables">>
                   /\ UpTo(ps[2], "=") = <<"queryId">>
                   /\ After(ps[2], "=") = IF call.api = "ListConversations"
                                          THEN conversationsQueryID(call.args.li)
                                          ELSE messagesQueryID(call.args.li)

\* the character a %XX triple stands for
Unhex(hi, lo) ==
    CASE hi = "2" /\ lo = "0" -> " "
      [] hi = "2" /\ lo = "2" -> QUOTE
      [] hi = "2" /\ lo = "3" -> "#"
      [] hi = "2" /\ lo = "5" -> "%"
      [] hi = "2" /\ lo = "8" -> "("
      [] hi = "2" /\ lo = "9" -> ")"
      [] hi = "2" /\ lo = "B" -> "+"
      [] hi = "2" /\ lo = "C" -> ","
      [] hi = "2" /\ lo = "F" -> "/"
      [] hi = "3" /\ lo = "B" -> ";"
      [] hi = "3" /\ lo = "F" -> "?"
      [] OTHER -> "?"

RECURSIVE PercentDecode(_)
PercentDecode(s) ==
    IF s = <<>> THEN <<>>
    ELSE IF Head(s) = "%" /\ Len(s) >= 3
         THEN <<Unhex(s[2], s[3])>> \o PercentDecode(SubSeq(s, 4, Len(s)))
         ELSE <<Head(s)>> \o PercentDecode(Tail(s))

\* the value of the variables parameter of a raw query, and in it the value
\* the tuple gives to keywords: it ends at the tuple's next comma
VariablesOf(rawQuery) == UpTo(After(After(rawQuery, "variables"), "="), "&")
EmbeddedKeywords(rawQuery) == UpTo(After(After(VariablesOf(rawQuery), "keywords"), ":"), ",")

\* C29: percent-decoding the keywords value embedded in the search query
\* gives back the keywords searchGraphQL was called with.
C29_KeywordsRoundTrip ==
    (ret # None /\ ret.err = NoErr)
        => PercentDecode(EmbeddedKeywords(ret.rawQuery)) = arg.keywords

\* the reference a /me response stores under data.*miniProfile, "" without one
MiniProfileReference(raw) ==
    IF HasMap(raw, "data") THEN getString(raw.o["data"], <<"*miniProfile">>) ELSE ""

\* the miniProfile entities of the entity array
MiniProfileEntities(raw) ==
    LET included == ArrayAt(raw, "included")
    IN  { included[i] : i \in { j \in 1..Len(included) : IsMiniProfile(included[j]) } }

\* C30: when the entity array of a /me response holds several miniProfile
\* entities and one of them has the identifier stored under
\* data.*miniProfile, GetMe returns that entity's fields.
C30_ReferencedMiniProfile ==
    (ret # None /\ ret.op = "GetMe" /\ ret.doErr = NoErr
       /\ Cardinality(MiniProfileEntities(arg)) >= 2)
        => \A m \in MiniProfileEntities(arg) :
              (MiniProfileReference(arg) # ""
                 /\ getString(m, <<"entityUrn">>) = MiniProfileReference(arg))
                  => /\ ret.me.MiniProfileEntityURN = MiniProfileReference(arg)
                     /\ ret.me.FirstName = getString(m, <<"firstName">>)

====
